---- MODULE Spec2Model ----
(***************************************************************************)
(* A model of the rendering-and-output-planning pipeline of the render     *)
(* CLI: mode inference, plan collection, plan validation, plan execution   *)
(* and the output Writer, over an explicit filesystem.                     *)
(*                                                                         *)
(* Strings (paths, template texts, file contents) are sequences of         *)
(* one-character strings, so that prefix, suffix, substring, split and     *)
(* path cleaning are computed as the Go library computes them.             *)
(*                                                                         *)
(* Not modelled: permission bits, modification times (a write is counted   *)
(* instead), the YAML syntax of the control file (the model holds its      *)
(* decoded mappings), and operating-system failures other than those that  *)
(* follow from the shape of the filesystem (a regular file where a         *)
(* directory is needed, a directory where a regular file is needed).       *)
(* Symbolic links occur as the template source and inside the template     *)
(* tree; no state has an entry beneath a link or a link in the output tree.*)
(***************************************************************************)
EXTENDS Naturals, Sequences, FiniteSets, TLC

VARIABLES
    fs,         \* the filesystem: canonical absolute path -> node
    args,       \* the inputs of the invocation: template path, data, --output, parsed control file
    flags,      \* renderFlags: force, dryRun
    pc,         \* position of the running command
    mode,       \* the inferred renderMode
    parsedCfg,  \* the ParsedConfig the directory modes loaded
    k,          \* number of items already collected (each modes)
    seenPaths,  \* output paths claimed so far (each modes)
    planned,    \* the plans collected so far, one per rendering unit
    pi,         \* index of the plan being executed
    ei,         \* index of the next entry of that plan
    skipped,    \* ExecuteResult.Skipped of the plan being executed
    exit,       \* exit code of the command (ExitSuccess while it runs)
    report,     \* what the command has reported: status, file actions, error message
    fs0,        \* history: the filesystem when the command started
    writes,     \* history: number of os.WriteFile calls of this command
    log,        \* history: one record per plan entry Execute has processed
    prevForced, \* history: the previous command was a real run with force set
    prev,       \* history: the previous command's flags, exit code and report, and whether it left the filesystem as it found it
    call        \* the last direct call of a library function and its result

vars == <<fs, args, flags, pc, mode, parsedCfg, k, seenPaths, planned, pi, ei, skipped,
          exit, report, fs0, writes, log, prevForced, prev, call>>

runVars == <<args, flags, pc, mode, parsedCfg, k, seenPaths, planned, pi, ei, skipped,
             exit, report, fs0, writes, log, prevForced, prev>>

-----------------------------------------------------------------------------
\* F applied to the value of e, which is computed once
With(e, F(_)) == CHOOSE r \in {F(v) : v \in {e}} : TRUE

-----------------------------------------------------------------------------
(* strings *)

HasPrefix(s, p) == Len(p) <= Len(s) /\ SubSeq(s, 1, Len(p)) = p

HasSuffix(s, x) == Len(x) <= Len(s) /\ SubSeq(s, Len(s) - Len(x) + 1, Len(s)) = x

TrimSuffix(s, x) == IF HasSuffix(s, x) THEN SubSeq(s, 1, Len(s) - Len(x)) ELSE s

TrimPrefix(s, p) == IF HasPrefix(s, p) THEN SubSeq(s, Len(p) + 1, Len(s)) ELSE s

StringsContains(s, x) ==
    \E i \in 1..(Len(s) + 1) :
        i + Len(x) <= Len(s) + 1 /\ SubSeq(s, i, i + Len(x) - 1) = x

RECURSIVE TrimLeft(_)
TrimLeft(s) == IF s # <<>> /\ Head(s) = " " THEN TrimLeft(Tail(s)) ELSE s

RECURSIVE TrimRight(_)
TrimRight(s) ==
    IF s # <<>> /\ s[Len(s)] = " " THEN TrimRight(SubSeq(s, 1, Len(s) - 1)) ELSE s

TrimSpace(s) == TrimRight(TrimLeft(s))

RECURSIVE SplitFrom(_, _, _, _, _)
SplitFrom(s, seps, i, cur, acc) ==
    IF i > Len(s) THEN Append(acc, cur)
    ELSE IF s[i] \in seps THEN SplitFrom(s, seps, i + 1, <<>>, Append(acc, cur))
    ELSE SplitFrom(s, seps, i + 1, Append(cur, s[i]), acc)

\* strings.FieldsFunc(s, f) with f true of the characters in seps
FieldsFunc(s, seps) ==
    SelectSeq(SplitFrom(s, seps, 1, <<>>, <<>>), LAMBDA seg : seg # <<>>)

SeqContains(seq, x) == \E i \in 1..Len(seq) : seq[i] = x

RECURSIVE JoinSegs(_)
JoinSegs(segs) ==
    IF segs = <<>> THEN <<>>
    ELSE IF Len(segs) = 1 THEN segs[1]
    ELSE segs[1] \o <<"/">> \o JoinSegs(Tail(segs))

-----------------------------------------------------------------------------
(* path/filepath on a Unix build: the separator is "/" *)

Separator == "/"

Root == <<"/">>

Dot == <<".">>

DotDot == <<".", ".">>

IsAbs(p) == p # <<>> /\ p[1] = Separator

RECURSIVE CleanSegs(_, _, _)
CleanSegs(segs, rooted, out) ==
    IF segs = <<>> THEN out
    ELSE LET seg == Head(segs) IN
         IF seg = Dot THEN CleanSegs(Tail(segs), rooted, out)
         ELSE IF seg = DotDot
              THEN IF out # <<>> /\ out[Len(out)] # DotDot
                   THEN CleanSegs(Tail(segs), rooted, SubSeq(out, 1, Len(out) - 1))
                   ELSE IF rooted THEN CleanSegs(Tail(segs), rooted, out)
                   ELSE CleanSegs(Tail(segs), rooted, Append(out, seg))
         ELSE CleanSegs(Tail(segs), rooted, Append(out, seg))

Clean(p) ==
    With(JoinSegs(CleanSegs(FieldsFunc(p, {Separator}), IsAbs(p), <<>>)), LAMBDA body :
        IF IsAbs(p) THEN Root \o body
        ELSE IF body = <<>> THEN Dot ELSE body)

Join(a, b) ==
    IF a = <<>> /\ b = <<>> THEN <<>>
    ELSE IF a = <<>> THEN Clean(b)
    ELSE IF b = <<>> THEN Clean(a)
    ELSE Clean(a \o <<Separator>> \o b)

LastSep(p) ==
    With({i \in 1..Len(p) : p[i] = Separator}, LAMBDA idx :
        IF idx = {} THEN 0 ELSE CHOOSE i \in idx : \A j \in idx : j <= i)

Dir(p) == Clean(SubSeq(p, 1, LastSep(p)))

RECURSIVE TrimTrailingSeps(_)
TrimTrailingSeps(p) ==
    IF p # <<>> /\ p[Len(p)] = Separator
    THEN TrimTrailingSeps(SubSeq(p, 1, Len(p) - 1)) ELSE p

Base(p) ==
    IF p = <<>> THEN Dot
    ELSE With(TrimTrailingSeps(p), LAMBDA q :
             IF q = <<>> THEN Root ELSE SubSeq(q, LastSep(q) + 1, Len(q)))

\* the working directory of the process
Cwd == Root

Abs(p) == IF IsAbs(p) THEN Clean(p) ELSE Join(Cwd, p)

-----------------------------------------------------------------------------
(* the filesystem: a function from the canonical absolute paths that exist *)
(* to a node, a directory or a regular file with its bytes                 *)

DirNode == [kind |-> "dir", data |-> <<>>]

FileNode(bytes) == [kind |-> "file", data |-> bytes]

\* a symbolic link; data is the path it points to
SymlinkNode(target) == [kind |-> "symlink", data |-> target]

RECURSIVE ProperAncestors(_)
ProperAncestors(q) ==
    IF q = Root THEN {} ELSE {Dir(q)} \cup ProperAncestors(Dir(q))

\* os.Lstat: "dir", "file" or "symlink" when the path exists, else the error
Lstat(f, p) ==
    With(Abs(p), LAMBDA q :
        IF \E a \in ProperAncestors(q) : a \in DOMAIN f /\ f[a].kind = "file" THEN "ENOTDIR"
        ELSE IF q \notin DOMAIN f THEN "ENOENT"
        ELSE f[q].kind)

\* the path a canonical path names once the links at its end are followed
RECURSIVE Resolve(_, _)
Resolve(f, q) ==
    IF q \in DOMAIN f /\ f[q].kind = "symlink"
    THEN Resolve(f, IF IsAbs(f[q].data) THEN Clean(f[q].data) ELSE Join(Dir(q), f[q].data))
    ELSE q

\* os.Stat: "dir" or "file" when the path exists, else the error
Stat(f, p) == Lstat(f, Resolve(f, Abs(p)))

StatOk(st) == st \in {"dir", "file"}

IsNotExist(st) == st = "ENOENT"

MkdirAll(f, dir) ==
    With(Abs(dir), LAMBDA q :
    With(ProperAncestors(q) \cup {q}, LAMBDA chain :
        IF \E a \in chain : a \in DOMAIN f /\ f[a].kind = "file"
        THEN [err |-> TRUE, fs |-> f]
        ELSE [err |-> FALSE,
              fs |-> [x \in DOMAIN f \cup chain |-> IF x \in DOMAIN f THEN f[x] ELSE DirNode]]))

ReadFile(f, p) ==
    IF Stat(f, p) = "file" THEN [err |-> FALSE, data |-> f[Resolve(f, Abs(p))].data]
    ELSE [err |-> TRUE, data |-> <<>>]

WriteFile(f, p, bytes) ==
    With(Abs(p), LAMBDA q :
        IF Stat(f, Dir(q)) # "dir" \/ Stat(f, q) = "dir"
        THEN [err |-> TRUE, fs |-> f]
        ELSE [err |-> FALSE,
              fs |-> [x \in DOMAIN f \cup {q} |-> IF x = q THEN FileNode(bytes) ELSE f[x]]])

-----------------------------------------------------------------------------
(* package output: the Writer.  Every method returns the error (ErrNil for *)
(* none), the filesystem it leaves, whether os.WriteFile was called, and   *)
(* whether the destination was skipped because it exists.                  *)

ErrNil == "nil"

ErrAlreadyExists == "file already exists (use --force to overwrite)"

Res(e, f, w, s) == [err |-> e, fs |-> f, wrote |-> w, skipped |-> s]

\* os.WriteFile at the end of a Writer method, and the method's result
WriteOut(f, path, content) ==
    With(WriteFile(f, path, content), LAMBDA w :
        Res(IF w.err THEN "failed to write file" ELSE ErrNil, w.fs, ~w.err, FALSE))

\* a WriteWithPerm that does not look at force
WriteWithPermNoForceCheck(f, force, path, content) ==
    With(MkdirAll(f, Dir(path)), LAMBDA mk :
        IF mk.err THEN Res("failed to create directory", f, FALSE, FALSE)
        ELSE With(Stat(mk.fs, path), LAMBDA st :
            IF StatOk(st) /\ st # "file"
            THEN Res("path exists but is not a regular file", mk.fs, FALSE, FALSE)
            ELSE IF StatOk(st) /\ ReadFile(mk.fs, path).data = content
            THEN Res(ErrNil, mk.fs, FALSE, FALSE)
            ELSE WriteOut(mk.fs, path, content)))

WriteWithPerm(f, force, path, content) ==
    With(MkdirAll(f, Dir(path)), LAMBDA mk :
        IF mk.err THEN Res("failed to create directory", f, FALSE, FALSE)
        ELSE With(Stat(mk.fs, path), LAMBDA st :
            IF StatOk(st) /\ st # "file"
            THEN Res("path exists but is not a regular file", mk.fs, FALSE, FALSE)
            ELSE IF StatOk(st) /\ ~force
            THEN Res(ErrAlreadyExists, mk.fs, FALSE, FALSE)
            ELSE IF StatOk(st) /\ ReadFile(mk.fs, path).data = content
            THEN Res(ErrNil, mk.fs, FALSE, FALSE)
            ELSE IF ~StatOk(st) /\ ~IsNotExist(st)
            THEN Res("failed to stat file", mk.fs, FALSE, FALSE)
            ELSE WriteOut(mk.fs, path, content)))

Write(f, force, path, content) ==
    With(MkdirAll(f, Dir(path)), LAMBDA mk :
        IF mk.err THEN Res("failed to create directory", f, FALSE, FALSE)
        ELSE With(Stat(mk.fs, path), LAMBDA st :
            IF StatOk(st) /\ st # "file"
            THEN Res("path exists but is not a regular file", mk.fs, FALSE, FALSE)
            ELSE IF StatOk(st) /\ ~force
            THEN Res(ErrAlreadyExists, mk.fs, FALSE, FALSE)
            ELSE IF StatOk(st) /\ ReadFile(mk.fs, path).data = content
            THEN Res(ErrNil, mk.fs, FALSE, FALSE)
            ELSE IF ~StatOk(st) /\ ~IsNotExist(st)
            THEN Res("failed to stat file", mk.fs, FALSE, FALSE)
            ELSE WriteOut(mk.fs, path, content)))

WriteString(f, force, path, content) == Write(f, force, path, content)

Copy(f, force, src, dst) ==
    IF ~StatOk(Stat(f, src)) THEN Res("failed to stat source file", f, FALSE, FALSE)
    ELSE With(ReadFile(f, src), LAMBDA rd :
        IF rd.err THEN Res("failed to read source file", f, FALSE, FALSE)
        ELSE WriteWithPerm(f, force, dst, rd.data))

WriteIfNotExists(f, path, content) ==
    With(Stat(f, path), LAMBDA st :
        IF StatOk(st) THEN Res(ErrNil, f, FALSE, TRUE)
        ELSE IF ~IsNotExist(st) THEN Res("failed to stat file", f, FALSE, FALSE)
        ELSE With(MkdirAll(f, Dir(path)), LAMBDA mk :
            IF mk.err THEN Res("failed to create directory", f, FALSE, FALSE)
            ELSE WriteOut(mk.fs, path, content)))

CopyIfNotExists(f, src, dst) ==
    With(Stat(f, dst), LAMBDA st :
        IF StatOk(st) THEN Res(ErrNil, f, FALSE, TRUE)
        ELSE IF ~IsNotExist(st) THEN Res("failed to stat file", f, FALSE, FALSE)
        ELSE IF ~StatOk(Stat(f, src)) THEN Res("failed to stat source file", f, FALSE, FALSE)
        ELSE With(ReadFile(f, src), LAMBDA rd :
            IF rd.err THEN Res("failed to read source file", f, FALSE, FALSE)
            ELSE With(MkdirAll(f, Dir(dst)), LAMBDA mk :
                IF mk.err THEN Res("failed to create directory", f, FALSE, FALSE)
                ELSE WriteOut(mk.fs, dst, rd.data))))

-----------------------------------------------------------------------------
(* the template engine.  Of the template language the model keeps the one  *)
(* action {{.}}, which prints the data value; any other {{ is a template   *)
(* that does not parse.                                                    *)

Scalar(t) == [list |-> FALSE, text |-> t, elems |-> <<>>]

List(es) == [list |-> TRUE, text |-> <<>>, elems |-> es]

RECURSIVE JoinTexts(_)
JoinTexts(es) ==
    IF es = <<>> THEN <<>>
    ELSE IF Len(es) = 1 THEN es[1].text
    ELSE es[1].text \o <<" ">> \o JoinTexts(Tail(es))

\* what {{.}} prints for a value
Text(d) == IF d.list THEN <<"[">> \o JoinTexts(d.elems) \o <<"]">> ELSE d.text

PrintDot == <<"{", "{", ".", "}", "}">>

RECURSIVE RenderFrom(_, _, _, _)
RenderFrom(t, i, out, d) ==
    IF i > Len(t) THEN [err |-> FALSE, out |-> out]
    ELSE IF i < Len(t) /\ t[i] = "{" /\ t[i + 1] = "{"
         THEN IF i + 4 <= Len(t) /\ SubSeq(t, i, i + 4) = PrintDot
              THEN RenderFrom(t, i + 5, out \o Text(d), d)
              ELSE [err |-> TRUE, out |-> <<>>]
    ELSE RenderFrom(t, i + 1, Append(out, t[i]), d)

RenderString(tmpl, d) == RenderFrom(tmpl, 1, <<>>, d)

-----------------------------------------------------------------------------
(* package config: the parsed control file and the path mapper *)

TmplSuffix == <<".", "t", "m", "p", "l">>

configFileNames ==
    << <<".", "r", "e", "n", "d", "e", "r", ".", "y", "a", "m", "l">>,
       <<".", "r", "e", "n", "d", "e", "r", ".", "y", "m", "l">>,
       <<"r", "e", "n", "d", "e", "r", ".", "j", "s", "o", "n">> >>

\* skips a file with the name of a control file in any directory
ShouldSkipConfigFileAnywhere(relPath) == SeqContains(configFileNames, Base(relPath))

ShouldSkipConfigFile(relPath) == SeqContains(configFileNames, relPath)

\* a nil *ParsedConfig: no control file was found
NilConfig == [nil |-> TRUE, fileTemplates |-> <<>>, dirMappings |-> <<>>, noOverwrite |-> {}]

IsEmpty(cfg) == cfg.nil \/ (DOMAIN cfg.fileTemplates = {} /\ cfg.dirMappings = <<>>)

\* NewPathMapper returns nil exactly when the config is nil or empty
MapperIsNil(cfg) == IsEmpty(cfg)

\* the decoded control file: whether --control names it, and its paths
\* mappings, source key -> output-path template and overwrite
\* a mapping written as an object with the fields path and overwrite
Mapping(path, overwrite) == [path |-> path, overwrite |-> overwrite, object |-> TRUE]

\* a mapping written as a string
ScalarMapping(path) == [path |-> path, overwrite |-> TRUE, object |-> FALSE]

\* PathMapping.UnmarshalYAML: the error, ErrNil for none
UnmarshalYAML(mapping) ==
    IF mapping.object /\ mapping.path = <<>> THEN "path mapping object must have 'path' field"
    ELSE ErrNil

NoControl == [control |-> FALSE, keys |-> {}, paths |-> <<>>]

\* the byte 0 in a path
Nul == "NUL"

\* the error messages of package config
configErr ==
    [absolute |-> "source path must be relative (got absolute path)",
     nul |-> "source path contains null byte",
     traversal |-> "source path contains '..' (directory traversal)",
     missing |-> "source does not exist in template directory",
     stat |-> "paths: stat failed",
     syntax |-> "invalid template syntax",
     exec |-> "template: error executing",
     rendered |-> "rendered path contains '..' (directory traversal)",
     unknownKey |-> "unknown key (only 'paths' allowed)",
     decode |-> "failed to parse config"]

\* validateSourcePath: the error, ErrNil for none
validateSourcePath(path) ==
    IF IsAbs(path) THEN configErr.absolute
    ELSE IF SeqContains(path, Nul) THEN configErr.nul
    ELSE IF SeqContains(FieldsFunc(path, {"/", Separator}), DotDot) THEN configErr.traversal
    ELSE ErrNil

\* takes the source to exist
ParseMappingWithoutStat(f, tmplDir, src, mapping) ==
    With(validateSourcePath(src), LAMBDA v :
        IF v # ErrNil THEN v
        ELSE IF RenderString(mapping.path, Scalar(<<>>)).err THEN configErr.syntax
        ELSE ErrNil)

\* the body of Parse's loop for one mapping: the error, ErrNil for none
ParseMapping(f, tmplDir, src, mapping) ==
    With(validateSourcePath(src), LAMBDA v :
        IF v # ErrNil THEN v
        ELSE With(Stat(f, Join(tmplDir, src)), LAMBDA st :
            IF IsNotExist(st) THEN configErr.missing
            ELSE IF ~StatOk(st) THEN configErr.stat
            ELSE IF RenderString(mapping.path, Scalar(<<>>)).err THEN configErr.syntax
            ELSE ErrNil))

\* the orders sort.Slice can leave the directory mappings in: longest prefix
\* first, prefixes of one length in any order
\* leaves the directory mappings in the order the map was ranged over
UnsortedDirMappings(paths, dirs) ==
    {[i \in DOMAIN o |-> [prefix |-> o[i], tmpl |-> paths[o[i]].path]] :
        o \in {q \in [1..Cardinality(dirs) -> dirs] :
                  \A i, j \in DOMAIN q : i # j => q[i] # q[j]}}

SortedDirMappings(paths, dirs) ==
    {[i \in DOMAIN o |-> [prefix |-> o[i], tmpl |-> paths[o[i]].path]] :
        o \in {q \in [1..Cardinality(dirs) -> dirs] :
                  /\ \A i, j \in DOMAIN q : i # j => q[i] # q[j]
                  /\ \A i, j \in DOMAIN q : i < j => Len(q[i]) >= Len(q[j])}}

\* Parse, the loop over the mappings and the sort: every result the
\* iteration order of the mappings allows
ParseMappings(f, paths, tmplDir) ==
    With({src \in DOMAIN paths : ParseMapping(f, tmplDir, src, paths[src]) # ErrNil}, LAMBDA bad :
        IF bad # {}
        THEN {[err |-> ParseMapping(f, tmplDir, src, paths[src]), cfg |-> NilConfig] : src \in bad}
        ELSE With({src \in DOMAIN paths : Stat(f, Join(tmplDir, src)) = "dir"}, LAMBDA dirs :
            {[err |-> ErrNil,
              cfg |-> [nil |-> FALSE,
                       fileTemplates |-> [src \in DOMAIN paths \ dirs |-> paths[src].path],
                       dirMappings |-> dms,
                       noOverwrite |-> {src \in DOMAIN paths : ~paths[src].overwrite}]] :
                dms \in SortedDirMappings(paths, dirs)}))

\* Parse: the keys of the document, the decoding of the mappings, the loop
Parse(f, content, tmplDir) ==
    IF \E key \in content.keys : key # "paths"
    THEN {[err |-> configErr.unknownKey, cfg |-> NilConfig]}
    ELSE IF \E src \in DOMAIN content.paths : UnmarshalYAML(content.paths[src]) # ErrNil
    THEN {[err |-> configErr.decode, cfg |-> NilConfig]}
    ELSE ParseMappings(f, content.paths, tmplDir)

LoadFile(f, content, tmplDir) == Parse(f, content, tmplDir)

\* Load: nil when the template directory holds no control file
Load(f, content, tmplDir) ==
    IF \E i \in 1..Len(configFileNames) : StatOk(Stat(f, Join(tmplDir, configFileNames[i])))
    THEN LoadFile(f, content, tmplDir)
    ELSE {[err |-> ErrNil, cfg |-> NilConfig]}

ValidateRenderedPath(path) == ~SeqContains(FieldsFunc(path, {"/", Separator}), DotDot)

Mapped(path) == [err |-> FALSE, path |-> path, msg |-> ErrNil]

NotMapped(msg) == [err |-> TRUE, path |-> <<>>, msg |-> msg]

\* takes a prefix that is a string prefix of the path as a match
RECURSIVE ApplyDirMappingsByStringPrefix(_, _, _, _)
ApplyDirMappingsByStringPrefix(dms, i, result, d) ==
    IF i > Len(dms) THEN Mapped(result)
    ELSE IF HasPrefix(result, dms[i].prefix)
         THEN With(RenderString(dms[i].tmpl, d), LAMBDA r :
                  IF r.err THEN NotMapped(configErr.exec)
                  ELSE IF ~ValidateRenderedPath(r.out) THEN NotMapped(configErr.rendered)
                  ELSE Mapped(r.out \o TrimPrefix(result, dms[i].prefix)))
    ELSE ApplyDirMappingsByStringPrefix(dms, i + 1, result, d)

RECURSIVE ApplyDirMappings(_, _, _, _)
ApplyDirMappings(dms, i, result, d) ==
    IF i > Len(dms) THEN Mapped(result)
    ELSE IF HasPrefix(result, dms[i].prefix \o <<"/">>) \/ result = dms[i].prefix
         THEN With(RenderString(dms[i].tmpl, d), LAMBDA r :
                  IF r.err THEN NotMapped(configErr.exec)
                  ELSE IF ~ValidateRenderedPath(r.out) THEN NotMapped(configErr.rendered)
                  ELSE Mapped(r.out \o TrimPrefix(result, dms[i].prefix)))
    ELSE ApplyDirMappings(dms, i + 1, result, d)

\* matches the directory mappings against the source path
TransformPathOnSource(cfg, relPath, d) ==
    IF MapperIsNil(cfg) THEN Mapped(relPath)
    ELSE IF relPath \in DOMAIN cfg.fileTemplates
              /\ ~\E i \in DOMAIN cfg.dirMappings :
                    HasPrefix(relPath, cfg.dirMappings[i].prefix \o <<"/">>)
         THEN With(RenderString(cfg.fileTemplates[relPath], d), LAMBDA r :
                  IF r.err THEN NotMapped(configErr.exec)
                  ELSE IF ~ValidateRenderedPath(r.out) THEN NotMapped(configErr.rendered)
                  ELSE Mapped(r.out))
    ELSE ApplyDirMappings(cfg.dirMappings, 1, relPath, d)

TransformPath(cfg, relPath, d) ==
    IF MapperIsNil(cfg) THEN Mapped(relPath)
    ELSE IF relPath \in DOMAIN cfg.fileTemplates
         THEN With(RenderString(cfg.fileTemplates[relPath], d), LAMBDA r :
                  IF r.err THEN NotMapped(configErr.exec)
                  ELSE IF ~ValidateRenderedPath(r.out) THEN NotMapped(configErr.rendered)
                  ELSE ApplyDirMappings(cfg.dirMappings, 1, r.out, d))
    ELSE ApplyDirMappings(cfg.dirMappings, 1, relPath, d)

\* takes overwrite: false on a directory to protect the files beneath it
CanOverwriteBeneath(cfg, sourcePath) ==
    IF MapperIsNil(cfg) THEN TRUE
    ELSE \A q \in cfg.noOverwrite :
            ~(sourcePath = q \/ HasPrefix(sourcePath, q \o <<"/">>))

CanOverwrite(cfg, sourcePath) ==
    IF MapperIsNil(cfg) THEN TRUE ELSE sourcePath \notin cfg.noOverwrite

-----------------------------------------------------------------------------
(* filepath.Walk: the root, then the entries of each directory in lexical  *)
(* order of their names, depth first                                       *)

\* the characters the model uses, in byte order
Chars == <<" ", ".", "/", "[", "\\", "]", "a", "b", "c", "d", "e", "j", "l", "m",
           "n", "o", "p", "r", "s", "t", "y", "{", "}">>

Rank(c) == CHOOSE i \in 1..Len(Chars) : Chars[i] = c

RECURSIVE LexLess(_, _)
LexLess(a, b) ==
    IF b = <<>> THEN FALSE
    ELSE IF a = <<>> THEN TRUE
    ELSE IF Head(a) = Head(b) THEN LexLess(Tail(a), Tail(b))
    ELSE Rank(Head(a)) < Rank(Head(b))

RECURSIVE SortPaths(_)
SortPaths(S) ==
    IF S = {} THEN <<>>
    ELSE With(CHOOSE x \in S : \A y \in S \ {x} : LexLess(x, y), LAMBDA m :
             <<m>> \o SortPaths(S \ {m}))

Children(f, d) == {q \in DOMAIN f : q # Root /\ Dir(q) = d}

RECURSIVE WalkList(_, _)
WalkList(f, todo) ==
    IF todo = <<>> THEN <<>>
    ELSE LET p == Head(todo) IN
         <<p>> \o (IF f[p].kind = "dir" THEN WalkList(f, SortPaths(Children(f, p))) ELSE <<>>)
             \o WalkList(f, Tail(todo))

Walk(f, root) == WalkList(f, <<root>>)

\* filepath.Rel(base, target) for a target the walk of base reaches
Rel(base, target) ==
    IF target = base THEN Dot
    ELSE IF base = Root THEN TrimPrefix(target, Root)
    ELSE TrimPrefix(target, base \o <<Separator>>)

-----------------------------------------------------------------------------
(* package render: Output, Plan, Collect, Validate, Execute *)

\* an Output; Content is empty for a copied file, CopyFrom is empty for a rendered one
Output(src, out, content, copyFrom, overwrite) ==
    [SourcePath |-> src, OutputPath |-> out, Content |-> content,
     CopyFrom |-> copyFrom, Overwrite |-> overwrite]

\* the error messages of Collect
collectErr ==
    [walked |-> "security error: path contains directory traversal",
     outside |-> "security error: output path is outside output directory",
     read |-> "failed to read template",
     render |-> "failed to render template",
     stat |-> "failed to stat source file",
     notDir |-> "template path is not a directory"]

\* what the walk callback returns: the Outputs it appends, or the error
Appended(outs) == [err |-> FALSE, outs |-> outs, msg |-> ErrNil]

WalkError(msg) == [err |-> TRUE, outs |-> <<>>, msg |-> msg]

\* the walk callback of Collect once the paths of the entry are known
CollectFile(f, d, path, relPath, outPath, canOverwrite) ==
    IF HasSuffix(path, TmplSuffix)
    THEN With(ReadFile(f, path), LAMBDA rd :
         With(RenderString(rd.data, d), LAMBDA r :
             IF rd.err THEN WalkError(collectErr.read)
             ELSE IF r.err THEN WalkError(collectErr.render)
             ELSE Appended(<<Output(relPath, TrimSuffix(outPath, TmplSuffix),
                                   r.out, <<>>, canOverwrite)>>)))
    ELSE IF ~StatOk(Stat(f, path)) THEN WalkError(collectErr.stat)
    ELSE Appended(<<Output(relPath, outPath, <<>>, path, canOverwrite)>>)

\* the walk callback of Collect for one entry: an error, nothing, or one Output
CollectEntry(f, tmplDirAbs, outDirAbs, d, cfg, path) ==
    With(Rel(tmplDirAbs, path), LAMBDA relPath :
        IF relPath = Dot THEN Appended(<<>>)
        ELSE IF ShouldSkipConfigFile(relPath) THEN Appended(<<>>)
        ELSE IF StringsContains(relPath, DotDot) THEN WalkError(collectErr.walked)
        ELSE With(TransformPath(cfg, relPath, d), LAMBDA tp :
            IF tp.err THEN WalkError(tp.msg)
            ELSE With(Join(outDirAbs, tp.path), LAMBDA outPath :
                IF ~HasPrefix(outPath, outDirAbs) THEN WalkError(collectErr.outside)
                ELSE IF f[path].kind = "dir" THEN Appended(<<>>)
                ELSE CollectFile(f, d, path, relPath, outPath, CanOverwrite(cfg, relPath)))))

RECURSIVE CollectWalk(_, _, _, _, _, _, _)
CollectWalk(f, tmplDirAbs, outDirAbs, d, cfg, todo, outs) ==
    IF todo = <<>> THEN [err |-> FALSE, plan |-> outs, msg |-> ErrNil]
    ELSE With(CollectEntry(f, tmplDirAbs, outDirAbs, d, cfg, Head(todo)), LAMBDA e :
             IF e.err THEN [err |-> TRUE, plan |-> <<>>, msg |-> e.msg]
             ELSE CollectWalk(f, tmplDirAbs, outDirAbs, d, cfg, Tail(todo), outs \o e.outs))

\* a walk that drops the entry that fails and goes on
RECURSIVE CollectWalkSkippingErrors(_, _, _, _, _, _, _)
CollectWalkSkippingErrors(f, tmplDirAbs, outDirAbs, d, cfg, todo, outs) ==
    IF todo = <<>> THEN [err |-> FALSE, plan |-> outs, msg |-> ErrNil]
    ELSE With(CollectEntry(f, tmplDirAbs, outDirAbs, d, cfg, Head(todo)), LAMBDA e :
             CollectWalkSkippingErrors(f, tmplDirAbs, outDirAbs, d, cfg, Tail(todo),
                                       outs \o e.outs))

\* a Collect that drops the entry that fails and keeps walking
CollectSkippingErrors(f, templateDir, outputDir, d, cfg) ==
    With(Abs(templateDir), LAMBDA tmplDirAbs :
        IF Stat(f, tmplDirAbs) # "dir" THEN [err |-> TRUE, plan |-> <<>>, msg |-> collectErr.notDir]
        ELSE CollectWalkSkippingErrors(f, tmplDirAbs, Abs(outputDir), d, cfg,
                                       Walk(f, tmplDirAbs), <<>>))

Collect(f, templateDir, outputDir, d, cfg) ==
    With(Abs(templateDir), LAMBDA tmplDirAbs :
        IF Stat(f, tmplDirAbs) # "dir" THEN [err |-> TRUE, plan |-> <<>>, msg |-> collectErr.notDir]
        ELSE CollectWalk(f, tmplDirAbs, Abs(outputDir), d, cfg, Walk(f, tmplDirAbs), <<>>))

\* a collision error: the output path and the two source paths it names
Collision(out, first, second) == [path |-> out, first |-> first, second |-> second]

RECURSIVE ValidateFrom(_, _, _, _)
ValidateFrom(outputs, i, seen, errs) ==
    IF i > Len(outputs) THEN errs
    ELSE ValidateFrom(outputs, i + 1,
             [x \in DOMAIN seen \cup {outputs[i].OutputPath} |->
                 IF x = outputs[i].OutputPath THEN outputs[i].SourcePath ELSE seen[x]],
             IF outputs[i].OutputPath \in DOMAIN seen
             THEN Append(errs, Collision(outputs[i].OutputPath, seen[outputs[i].OutputPath],
                                         outputs[i].SourcePath))
             ELSE errs)

\* a Validate that looks at the first two entries only
ValidateFirstPair(outputs) ==
    ValidateFrom(IF Len(outputs) > 2 THEN SubSeq(outputs, 1, 2) ELSE outputs, 1, <<>>, <<>>)

\* a Validate that finds nothing
ValidateNothing(outputs) == <<>>

Validate(outputs) == ValidateFrom(outputs, 1, <<>>, <<>>)

\* an Execute step that writes a protected entry like any other
ExecuteEntryIgnoringOverwrite(f, force, out) ==
    With(MkdirAll(f, Dir(out.OutputPath)), LAMBDA mk :
        IF mk.err THEN Res("failed to create directory", f, FALSE, FALSE)
        ELSE IF out.CopyFrom # <<>> THEN Copy(mk.fs, force, out.CopyFrom, out.OutputPath)
        ELSE WriteWithPerm(mk.fs, force, out.OutputPath, out.Content))

\* the body of Execute's loop for one entry
ExecuteEntry(f, force, out) ==
    With(MkdirAll(f, Dir(out.OutputPath)), LAMBDA mk :
        IF mk.err THEN Res("failed to create directory", f, FALSE, FALSE)
        ELSE IF out.CopyFrom # <<>>
             THEN IF ~out.Overwrite THEN CopyIfNotExists(mk.fs, out.CopyFrom, out.OutputPath)
                  ELSE Copy(mk.fs, force, out.CopyFrom, out.OutputPath)
        ELSE IF ~out.Overwrite THEN WriteIfNotExists(mk.fs, out.OutputPath, out.Content)
             ELSE WriteWithPerm(mk.fs, force, out.OutputPath, out.Content))

-----------------------------------------------------------------------------
(* package cli: exit codes, mode inference and the helpers of the command *)

ExitSuccess == 0
ExitRuntimeError == 1
ExitUsageError == 2
ExitInputValidation == 3
ExitPermissionDenied == 4
ExitOutputConflict == 5
ExitSafetyViolation == 6

modeFile == "file"
modeFileIntoDir == "file-into-dir"
modeDirectory == "directory"
modeEachFile == "each-file"
modeEachDirectory == "each-directory"

Open == <<"{", "{">>

Close == <<"}", "}">>

\* an inferMode that forgets the trailing-separator test
inferModeNoTrailingSlash(isDir, outputPath) ==
    LET isDynamic == StringsContains(outputPath, Open) /\ StringsContains(outputPath, Close)
    IN  IF isDir THEN (IF isDynamic THEN modeEachDirectory ELSE modeDirectory)
        ELSE IF isDynamic THEN modeEachFile
        ELSE modeFile

inferMode(isDir, outputPath) ==
    LET isDynamic == StringsContains(outputPath, Open) /\ StringsContains(outputPath, Close)
        hasTrailingSlash == HasSuffix(outputPath, <<"/">>) \/ HasSuffix(outputPath, <<Separator>>)
    IN  IF isDir THEN (IF isDynamic THEN modeEachDirectory ELSE modeDirectory)
        ELSE IF isDynamic THEN modeEachFile
        ELSE IF hasTrailingSlash THEN modeFileIntoDir
        ELSE modeFile

getIterableItems(d) == IF d.list THEN d.elems ELSE <<d>>

\* looks for ".." as the whole path only
validateOutputPathWhole(path) == path # DotDot

validateOutputPath(path) == ~SeqContains(FieldsFunc(path, {"/", "\\"}), DotDot)

collisionNone == "none"

collisionIdentical == "identical"

\* checkCollision: the result and whether it is an output-conflict error
checkCollision(f, force, path, content) ==
    IF ~force /\ Stat(f, path) = "file"
    THEN IF ReadFile(f, path).data = content
         THEN [result |-> collisionIdentical, err |-> FALSE]
         ELSE [result |-> collisionNone, err |-> TRUE]
    ELSE [result |-> collisionNone, err |-> FALSE]

\* wrapWriteError classifies a write error by the words of its message
wrapWriteError(err) ==
    IF err = ErrAlreadyExists THEN ExitOutputConflict
    ELSE ExitRuntimeError

-----------------------------------------------------------------------------
(* the inputs the model draws from: template trees, control files, data,   *)
(* output flags and the state of the output tree before the first command  *)

TemplateDir == <<"/", "t">>
OutputDir == <<"/", "o">>
OutA == <<"/", "o", "/", "a">>
OutB == <<"/", "o", "/", "b">>
RelA == <<"a">>
RelB == <<"b">>
RelATmpl == RelA \o TmplSuffix
RelBTmpl == RelB \o TmplSuffix
Src(rel) == TemplateDir \o <<"/">> \o rel

Unclosed == <<"{", "{">>

TreeOf(files) == (Root :> DirNode) @@ (TemplateDir :> DirNode) @@ files

\* a template that prints the data and a static file
TreePrintAndCopy ==
    TreeOf((Src(RelATmpl) :> FileNode(PrintDot)) @@ (Src(RelB) :> FileNode(<<"b">>)))

\* a static file and a template that lose their difference with the suffix
TreeSuffixClash ==
    TreeOf((Src(RelA) :> FileNode(<<"a">>)) @@ (Src(RelATmpl) :> FileNode(<<"b">>)))

\* a good template followed by one that does not parse
TreeBadTemplate ==
    TreeOf((Src(RelATmpl) :> FileNode(<<"a">>)) @@ (Src(RelBTmpl) :> FileNode(Unclosed)))

\* a control file named by --control: one mapping per key of files, with
\* overwrite: false on the protected keys
Config(files, protected) ==
    [control |-> TRUE,
     keys |-> {"paths"},
     paths |-> [src \in DOMAIN files |-> Mapping(files[src], src \notin protected)]]

\* "a.tmpl": {path: "a", overwrite: false}
CfgProtectA == Config((RelATmpl :> RelA), {RelATmpl})

\* "b": {path: "b", overwrite: false}
CfgProtectB == Config((RelB :> RelB), {RelB})

\* "a.tmpl": "b", which is where the static file b goes
CfgClash == Config((RelATmpl :> RelB), {})

DataA == Scalar(<<"a">>)
ItemA == Scalar(<<"a">>)
ItemB == Scalar(<<"b">>)
ItemAliasA == Scalar(<<".", "/", "a">>)
ItemDotDot == Scalar(DotDot)

EachData ==
    {DataA, List(<<>>), List(<<ItemA, ItemB>>), List(<<ItemA, ItemA>>),
     List(<<ItemA, ItemAliasA>>), List(<<ItemA, ItemDotDot>>)}

OutputStatic == OutputDir
OutputFile == OutA
OutputIntoDir == OutputDir \o <<"/">>
OutputEach == OutputDir \o <<"/">> \o PrintDot

Args(t, d, o, c) == [template |-> t, data |-> d, output |-> o, cfg |-> c]

DirSetups ==
    {<<TreePrintAndCopy, NoControl>>, <<TreePrintAndCopy, CfgProtectA>>,
     <<TreePrintAndCopy, CfgProtectB>>, <<TreePrintAndCopy, CfgClash>>,
     <<TreeSuffixClash, NoControl>>, <<TreeBadTemplate, NoControl>>}

FileSetups ==
    {<<TreePrintAndCopy, Src(RelATmpl)>>, <<TreeBadTemplate, Src(RelATmpl)>>,
     <<TreeBadTemplate, Src(RelBTmpl)>>}

\* <<tree, args>>: every invocation the model starts from
Invocations ==
    {<<s[1], Args(TemplateDir, DataA, OutputStatic, s[2])>> : s \in DirSetups}
    \cup {<<s[1], Args(TemplateDir, d, OutputEach, s[2])>> : s \in DirSetups, d \in EachData}
    \cup {<<s[1], Args(s[2], DataA, o, NoControl)>> : s \in FileSetups, o \in {OutputFile, OutputIntoDir}}
    \cup {<<s[1], Args(s[2], d, OutputEach, NoControl)>> : s \in FileSetups, d \in EachData}

Absent == <<>>

OutputTree(a, b) ==
    (IF a = Absent /\ b = Absent THEN <<>> ELSE (OutputDir :> DirNode))
    @@ (IF a = Absent THEN <<>> ELSE (OutA :> a))
    @@ (IF b = Absent THEN <<>> ELSE (OutB :> b))

\* the output tree before the first command: what is at /o/a and at /o/b
OutputStates ==
    {OutputTree(a, b) :
        a \in {Absent, FileNode(<<"a">>), FileNode(<<"b">>), DirNode},
        b \in {Absent, FileNode(<<"b">>), FileNode(<<>>)}}

NoCall == [op |-> "none"]

-----------------------------------------------------------------------------
(* package cli: the render command, one action per step of its handlers *)

\* the variables no step of a running command changes
static == <<args, flags, mode, fs0, prevForced, prev, call>>

\* the messages of the exitErrors of the command
cliMsg ==
    [outputNotSet |-> "required flag --output/-o not set",
     symlink |-> "template source contains symlink",
     accessTemplate |-> "failed to access template",
     renderOutputPath |-> "failed to render output path",
     outputTraversal |-> "security error: output path contains directory traversal",
     internalCollision |-> "internal collision",
     validationFailed |-> "validation failed"]

\* a fileAction of the report
fileAction(path, action) == [Path |-> path, Action |-> action]

\* what the command has printed: the status and files of its renderResult,
\* or the message of its exitError
NoReport == [Status |-> "", Files |-> <<>>, Msg |-> ErrNil]

NoPrev == [ran |-> FALSE]

Finish(code) == pc' = "done" /\ exit' = code

\* return &exitError{code, msg}
Fail(code, msg) ==
    /\ Finish(code)
    /\ report' = [Status |-> "error", Files |-> <<>>, Msg |-> msg]

reportDryRun(actions) ==
    /\ Finish(ExitSuccess)
    /\ report' = [Status |-> "dry-run", Files |-> actions, Msg |-> ErrNil]

reportSuccess(actions) ==
    /\ Finish(ExitSuccess)
    /\ report' = [Status |-> "success", Files |-> actions, Msg |-> ErrNil]

\* the command goes on to its next step
Continue(p) == pc' = p /\ UNCHANGED <<exit, report>>

\* what os.Stat and os.ReadFile see at a path
NodeAt(f, p) ==
    With(Stat(f, p), LAMBDA st :
        [st |-> st, data |-> IF st = "file" THEN f[Resolve(f, Abs(p))].data ELSE <<>>])

Count(b) == IF b THEN 1 ELSE 0

\* checkForSymlinks: the path is a symbolic link
checkForSymlinks(f, path) == Lstat(f, path) = "symlink"

\* looks for links only when force is not set
checkDirForSymlinksUnlessForce(f, dir) ==
    /\ ~flags.force
    /\ \E i \in 1..Len(Walk(f, Abs(dir))) : Lstat(f, Walk(f, Abs(dir))[i]) = "symlink"

\* checkDirForSymlinks: the walk of the directory meets a symbolic link
checkDirForSymlinks(f, dir) ==
    \E i \in 1..Len(Walk(f, Abs(dir))) : Lstat(f, Walk(f, Abs(dir))[i]) = "symlink"

\* runRenderCmd up to the switch on the mode
RunRenderCmd(force, dryRun) ==
    /\ pc \in {"idle", "done"}
    /\ flags' = [force |-> force, dryRun |-> dryRun]
    /\ prevForced' = (pc = "done" /\ flags.force /\ ~flags.dryRun)
    /\ prev' = IF pc = "done"
               THEN [ran |-> TRUE, force |-> flags.force, dryRun |-> flags.dryRun,
                     exit |-> exit, report |-> report, unchanged |-> fs = fs0]
               ELSE NoPrev
    /\ fs0' = fs
    /\ writes' = 0
    /\ log' = <<>>
    /\ k' = 0
    /\ seenPaths' = {}
    /\ planned' = <<>>
    /\ pi' = 1
    /\ ei' = 1
    /\ skipped' = {}
    /\ parsedCfg' = NilConfig
    /\ \E st \in {Stat(fs, args.template)} :
       IF args.output = <<>>
       THEN Fail(ExitUsageError, cliMsg.outputNotSet) /\ mode' = mode
       ELSE IF checkForSymlinks(fs, args.template)
       THEN Fail(ExitSafetyViolation, cliMsg.symlink) /\ mode' = mode
       ELSE IF ~StatOk(st) THEN Fail(ExitInputValidation, cliMsg.accessTemplate) /\ mode' = mode
       ELSE /\ mode' = inferMode(st = "dir", args.output)
            /\ pc' = "start"
            /\ exit' = ExitSuccess
            /\ report' = NoReport
    /\ UNCHANGED <<fs, args, call>>

\* a file mode that writes although --dry-run is set
RenderToFileIgnoringDryRun(outputPath) ==
    \E rd \in {ReadFile(fs, args.template)} :
    \E r \in {RenderString(rd.data, args.data)} :
    \E c \in {checkCollision(fs, flags.force, outputPath, r.out)} :
    \E w \in {WriteString(fs, flags.force, outputPath, r.out)} :
        IF rd.err THEN Fail(ExitInputValidation, collectErr.read) /\ UNCHANGED <<fs, writes>>
        ELSE IF r.err THEN Fail(ExitRuntimeError, collectErr.render) /\ UNCHANGED <<fs, writes>>
        ELSE IF c.err THEN Fail(ExitOutputConflict, ErrAlreadyExists) /\ UNCHANGED <<fs, writes>>
        ELSE IF c.result = collisionIdentical
             THEN /\ reportSuccess(<<fileAction(outputPath, "skipped (identical)")>>)
                  /\ UNCHANGED <<fs, writes>>
        ELSE /\ fs' = w.fs
             /\ writes' = writes + Count(w.wrote)
             /\ IF w.err = ErrNil THEN reportSuccess(<<fileAction(outputPath, "created")>>)
                ELSE Fail(wrapWriteError(w.err), w.err)

\* read, render, check, and write the one output of the two file modes
RenderToFile(outputPath) ==
    \E rd \in {ReadFile(fs, args.template)} :
    \E r \in {RenderString(rd.data, args.data)} :
    \E c \in {checkCollision(fs, flags.force, outputPath, r.out)} :
    \E w \in {WriteString(fs, flags.force, outputPath, r.out)} :
        IF rd.err THEN Fail(ExitInputValidation, collectErr.read) /\ UNCHANGED <<fs, writes>>
        ELSE IF r.err THEN Fail(ExitRuntimeError, collectErr.render) /\ UNCHANGED <<fs, writes>>
        ELSE IF c.err THEN Fail(ExitOutputConflict, ErrAlreadyExists) /\ UNCHANGED <<fs, writes>>
        ELSE IF flags.dryRun
             THEN reportDryRun(<<fileAction(outputPath, "create")>>) /\ UNCHANGED <<fs, writes>>
        ELSE IF c.result = collisionIdentical
             THEN /\ reportSuccess(<<fileAction(outputPath, "skipped (identical)")>>)
                  /\ UNCHANGED <<fs, writes>>
        ELSE /\ fs' = w.fs
             /\ writes' = writes + Count(w.wrote)
             /\ IF w.err = ErrNil THEN reportSuccess(<<fileAction(outputPath, "created")>>)
                ELSE Fail(wrapWriteError(w.err), w.err)

executeFileMode ==
    /\ pc = "start"
    /\ mode = modeFile
    /\ RenderToFile(args.output)
    /\ UNCHANGED <<static, parsedCfg, k, seenPaths, planned, pi, ei, skipped, log>>

executeFileIntoDirMode ==
    /\ pc = "start"
    /\ mode = modeFileIntoDir
    /\ RenderToFile(Join(TrimSuffix(args.output, <<"/">>),
                         TrimSuffix(Base(args.template), TmplSuffix)))
    /\ UNCHANGED <<static, parsedCfg, k, seenPaths, planned, pi, ei, skipped, log>>

DirModes == {modeDirectory, modeEachDirectory}

\* both directory modes: load the control file, then look for symbolic links
LoadRenderConfig ==
    /\ pc = "start"
    /\ mode \in DirModes
    /\ \E ld \in (IF args.cfg.control THEN LoadFile(fs, args.cfg, args.template)
                  ELSE Load(fs, args.cfg, args.template)) :
       IF ld.err # ErrNil THEN Fail(ExitInputValidation, ld.err) /\ parsedCfg' = parsedCfg
       ELSE IF checkDirForSymlinks(fs, args.template)
       THEN Fail(ExitSafetyViolation, cliMsg.symlink) /\ parsedCfg' = parsedCfg
       ELSE parsedCfg' = ld.cfg /\ Continue("loaded")
    /\ UNCHANGED <<static, fs, k, seenPaths, planned, pi, ei, skipped, writes, log>>

\* executeDirectoryMode: Collect
DirCollect ==
    /\ pc = "loaded"
    /\ mode = modeDirectory
    /\ \E c \in {Collect(fs, args.template, args.output, args.data, parsedCfg)} :
       IF c.err THEN Fail(ExitRuntimeError, c.msg) /\ planned' = planned
       ELSE planned' = <<c.plan>> /\ Continue("collected")
    /\ UNCHANGED <<static, fs, parsedCfg, k, seenPaths, pi, ei, skipped, writes, log>>

\* executeDirectoryMode: Validate
DirValidate ==
    /\ pc = "collected"
    /\ mode = modeDirectory
    /\ IF Validate(planned[1]) # <<>> THEN Fail(ExitRuntimeError, cliMsg.validationFailed)
       ELSE Continue("validated")
    /\ UNCHANGED <<static, fs, parsedCfg, k, seenPaths, planned, pi, ei, skipped, writes, log>>

\* executeEachDirectoryMode: one turn of the loop over the items
EachDirItem ==
    /\ pc = "loaded"
    /\ mode = modeEachDirectory
    /\ k < Len(getIterableItems(args.data))
    /\ \E item \in {getIterableItems(args.data)[k + 1]} :
       \E r \in {RenderString(args.output, item)} :
       \E outDir \in {TrimSpace(r.out)} :
       \E c \in {Collect(fs, args.template, outDir, item, parsedCfg)} :
       LET path(i) == c.plan[i].OutputPath
           internal == \E i \in 1..Len(c.plan) :
                          path(i) \in seenPaths \cup {path(j) : j \in 1..(i - 1)}
           stop(code, msg) == Fail(code, msg) /\ UNCHANGED <<k, seenPaths, planned>>
       IN  IF r.err THEN stop(ExitRuntimeError, cliMsg.renderOutputPath)
           ELSE IF ~validateOutputPath(outDir) THEN stop(ExitSafetyViolation, cliMsg.outputTraversal)
           ELSE IF c.err THEN stop(ExitRuntimeError, c.msg)
           ELSE IF internal THEN stop(ExitRuntimeError, cliMsg.internalCollision)
           ELSE IF Validate(c.plan) # <<>> THEN stop(ExitRuntimeError, cliMsg.validationFailed)
           ELSE /\ planned' = Append(planned, c.plan)
                /\ seenPaths' = seenPaths \cup {path(i) : i \in 1..Len(c.plan)}
                /\ k' = k + 1
                /\ UNCHANGED <<pc, exit, report>>
    /\ UNCHANGED <<static, fs, parsedCfg, pi, ei, skipped, writes, log>>

\* executeEachDirectoryMode: the loop over the items ends
EachDirCollected ==
    /\ pc = "loaded"
    /\ mode = modeEachDirectory
    /\ k = Len(getIterableItems(args.data))
    /\ Continue("validated")
    /\ UNCHANGED <<static, fs, parsedCfg, k, seenPaths, planned, pi, ei, skipped, writes, log>>

\* the pre-execute check of one plan: some overwritable entry is in conflict
PlanConflict(f, force, plan) ==
    \E i \in 1..Len(plan) :
        /\ plan[i].Overwrite
        /\ checkCollision(f, force, plan[i].OutputPath, plan[i].Content).err

\* both directory modes: the check for collisions with the filesystem
CheckCollisions ==
    /\ pc = "validated"
    /\ IF \E j \in 1..Len(planned) : PlanConflict(fs, flags.force, planned[j])
       THEN Fail(ExitOutputConflict, ErrAlreadyExists)
       ELSE Continue("checked")
    /\ UNCHANGED <<static, fs, parsedCfg, k, seenPaths, planned, pi, ei, skipped, writes, log>>

\* the action a dry run of a directory mode reports for one entry
DryRunAction(f, out) ==
    fileAction(out.OutputPath,
               IF ~out.Overwrite /\ StatOk(Stat(f, out.OutputPath))
               THEN "skip (exists, no-overwrite)"
               ELSE IF out.CopyFrom # <<>> THEN "copy" ELSE "render")

\* the action a real run of a directory mode reports for one entry
SuccessAction(skippedPaths, out) ==
    fileAction(out.OutputPath,
               IF out.OutputPath \in skippedPaths THEN "skipped (exists, no-overwrite)"
               ELSE IF out.CopyFrom # <<>> THEN "copied" ELSE "rendered")

\* the entries of all plans, in order
RECURSIVE AllOutputs(_)
AllOutputs(plans) == IF plans = <<>> THEN <<>> ELSE Head(plans) \o AllOutputs(Tail(plans))

\* every mode with a plan: --dry-run reports and returns
DryRun ==
    /\ pc = "checked"
    /\ flags.dryRun
    /\ IF mode = modeEachFile
       THEN reportDryRun([i \in 1..Len(planned) |-> fileAction(planned[i].path, "create")])
       ELSE \E outs \in {AllOutputs(planned)} :
                reportDryRun([i \in 1..Len(outs) |-> DryRunAction(fs, outs[i])])
    /\ UNCHANGED <<static, fs, parsedCfg, k, seenPaths, planned, pi, ei, skipped, writes, log>>

\* the bytes an entry is meant to put at its destination
Expected(f, out) == IF out.CopyFrom # <<>> THEN ReadFile(f, out.CopyFrom).data ELSE out.Content

\* puts the filesystem back as the command found it when an entry fails
ExecuteStepRollingBack ==
    /\ pc = "checked"
    /\ ~flags.dryRun
    /\ mode \in DirModes
    /\ pi <= Len(planned)
    /\ ei <= Len(planned[pi])
    /\ \E out \in {planned[pi][ei]} :
       \E r \in {ExecuteEntry(fs, flags.force, out)} :
           /\ fs' = IF r.err # ErrNil THEN fs0 ELSE r.fs
           /\ writes' = writes + Count(r.wrote)
           /\ log' = Append(log, [out |-> out, force |-> flags.force,
                                  before |-> NodeAt(fs, out.OutputPath),
                                  expected |-> Expected(fs, out),
                                  err |-> r.err, wrote |-> r.wrote, skipped |-> r.skipped,
                                  after |-> NodeAt(r.fs, out.OutputPath)])
           /\ IF r.err # ErrNil
              THEN Fail(wrapWriteError(r.err), r.err) /\ skipped' = {} /\ ei' = ei
              ELSE /\ ei' = ei + 1
                   /\ skipped' = IF r.skipped THEN skipped \cup {out.OutputPath} ELSE skipped
                   /\ UNCHANGED <<pc, exit, report>>
    /\ UNCHANGED <<static, parsedCfg, k, seenPaths, planned, pi>>

\* Plan.Execute: one turn of its loop, for entry ei of plan pi
ExecuteStep ==
    /\ pc = "checked"
    /\ ~flags.dryRun
    /\ mode \in DirModes
    /\ pi <= Len(planned)
    /\ ei <= Len(planned[pi])
    /\ \E out \in {planned[pi][ei]} :
       \E r \in {ExecuteEntry(fs, flags.force, out)} :
           /\ fs' = r.fs
           /\ writes' = writes + Count(r.wrote)
           /\ log' = Append(log, [out |-> out, force |-> flags.force,
                                  before |-> NodeAt(fs, out.OutputPath),
                                  expected |-> Expected(fs, out),
                                  err |-> r.err, wrote |-> r.wrote, skipped |-> r.skipped,
                                  after |-> NodeAt(r.fs, out.OutputPath)])
           /\ IF r.err # ErrNil
              THEN Fail(wrapWriteError(r.err), r.err) /\ skipped' = {} /\ ei' = ei
              ELSE /\ ei' = ei + 1
                   /\ skipped' = IF r.skipped THEN skipped \cup {out.OutputPath} ELSE skipped
                   /\ UNCHANGED <<pc, exit, report>>
    /\ UNCHANGED <<static, parsedCfg, k, seenPaths, planned, pi>>

\* Plan.Execute returns: its plan is reported, then the next plan or success
ExecuteReturn ==
    /\ pc = "checked"
    /\ ~flags.dryRun
    /\ mode \in DirModes
    /\ IF pi > Len(planned) THEN TRUE ELSE ei > Len(planned[pi])
    /\ \E actions \in {IF pi > Len(planned) THEN report.Files
                       ELSE report.Files \o [i \in 1..Len(planned[pi]) |->
                                                SuccessAction(skipped, planned[pi][i])]} :
       IF pi >= Len(planned) THEN reportSuccess(actions) /\ UNCHANGED <<pi, ei, skipped>>
       ELSE /\ pi' = pi + 1
            /\ ei' = 1
            /\ skipped' = {}
            /\ report' = [report EXCEPT !.Files = actions]
            /\ UNCHANGED <<pc, exit>>
    /\ UNCHANGED <<static, fs, parsedCfg, k, seenPaths, planned, writes, log>>

\* plans every item without looking at the paths of the items before it
EachFileItemWithoutSeenPaths ==
    /\ pc = "start"
    /\ mode = modeEachFile
    /\ k < Len(getIterableItems(args.data))
    /\ \E rd \in {ReadFile(fs, args.template)} :
       \E item \in {getIterableItems(args.data)[k + 1]} :
       \E r \in {RenderString(args.output, item)} :
       \E outPath \in {TrimSpace(r.out)} :
       \E t \in {RenderString(rd.data, item)} :
       LET stop(code, msg) == Fail(code, msg) /\ UNCHANGED <<k, seenPaths, planned>>
       IN  IF rd.err THEN stop(ExitInputValidation, collectErr.read)
           ELSE IF r.err THEN stop(ExitRuntimeError, cliMsg.renderOutputPath)
           ELSE IF ~validateOutputPath(outPath) THEN stop(ExitSafetyViolation, cliMsg.outputTraversal)
           ELSE IF t.err THEN stop(ExitRuntimeError, collectErr.render)
           ELSE /\ planned' = Append(planned, [path |-> outPath, content |-> t.out,
                                               skip |-> FALSE])
                /\ seenPaths' = seenPaths \cup {outPath}
                /\ k' = k + 1
                /\ UNCHANGED <<pc, exit, report>>
    /\ UNCHANGED <<static, fs, parsedCfg, pi, ei, skipped, writes, log>>

\* executeEachFileMode: one turn of the loop over the items
EachFileItem ==
    /\ pc = "start"
    /\ mode = modeEachFile
    /\ k < Len(getIterableItems(args.data))
    /\ \E rd \in {ReadFile(fs, args.template)} :
       \E item \in {getIterableItems(args.data)[k + 1]} :
       \E r \in {RenderString(args.output, item)} :
       \E outPath \in {TrimSpace(r.out)} :
       \E t \in {RenderString(rd.data, item)} :
       LET stop(code, msg) == Fail(code, msg) /\ UNCHANGED <<k, seenPaths, planned>>
       IN  IF rd.err THEN stop(ExitInputValidation, collectErr.read)
           ELSE IF r.err THEN stop(ExitRuntimeError, cliMsg.renderOutputPath)
           ELSE IF ~validateOutputPath(outPath) THEN stop(ExitSafetyViolation, cliMsg.outputTraversal)
           ELSE IF outPath \in seenPaths THEN stop(ExitRuntimeError, cliMsg.internalCollision)
           ELSE IF t.err THEN stop(ExitRuntimeError, collectErr.render)
           ELSE /\ planned' = Append(planned, [path |-> outPath, content |-> t.out,
                                               skip |-> FALSE])
                /\ seenPaths' = seenPaths \cup {outPath}
                /\ k' = k + 1
                /\ UNCHANGED <<pc, exit, report>>
    /\ UNCHANGED <<static, fs, parsedCfg, pi, ei, skipped, writes, log>>

\* executeEachFileMode: the check for collisions with the filesystem, and skipMap
EachFileCheckCollisions ==
    /\ pc = "start"
    /\ mode = modeEachFile
    /\ k = Len(getIterableItems(args.data))
    /\ \E c \in {[i \in 1..Len(planned) |->
                      checkCollision(fs, flags.force, planned[i].path, planned[i].content)]} :
       IF ReadFile(fs, args.template).err
       THEN Fail(ExitInputValidation, collectErr.read) /\ planned' = planned
       ELSE IF \E i \in 1..Len(planned) : c[i].err
       THEN Fail(ExitOutputConflict, ErrAlreadyExists) /\ planned' = planned
       ELSE /\ planned' = [i \in 1..Len(planned) |->
                              [planned[i] EXCEPT !.skip = (c[i].result = collisionIdentical)]]
            /\ Continue("checked")
    /\ UNCHANGED <<static, fs, parsedCfg, k, seenPaths, pi, ei, skipped, writes, log>>

\* executeEachFileMode: one turn of the loop that writes
EachFileWrite ==
    /\ pc = "checked"
    /\ ~flags.dryRun
    /\ mode = modeEachFile
    /\ ei <= Len(planned)
    /\ \E p \in {planned[ei]} :
       \E w \in {WriteString(fs, flags.force, p.path, p.content)} :
       LET done(action) ==
               /\ ei' = ei + 1
               /\ report' = [report EXCEPT !.Files = Append(@, fileAction(p.path, action))]
               /\ UNCHANGED <<pc, exit>>
       IN  IF p.skip THEN done("skipped (identical)") /\ UNCHANGED <<fs, writes>>
           ELSE /\ fs' = w.fs
                /\ writes' = writes + Count(w.wrote)
                /\ IF w.err # ErrNil THEN Fail(wrapWriteError(w.err), w.err) /\ ei' = ei
                   ELSE done("created")
    /\ UNCHANGED <<static, parsedCfg, k, seenPaths, planned, pi, skipped, log>>

\* executeEachFileMode: every output is written
EachFileDone ==
    /\ pc = "checked"
    /\ ~flags.dryRun
    /\ mode = modeEachFile
    /\ ei > Len(planned)
    /\ reportSuccess(report.Files)
    /\ UNCHANGED <<static, fs, parsedCfg, k, seenPaths, planned, pi, ei, skipped, writes, log>>

\* the run variables before any command
Quiet ==
    /\ flags = [force |-> FALSE, dryRun |-> FALSE]
    /\ pc = "idle"
    /\ mode = modeFile
    /\ parsedCfg = NilConfig
    /\ k = 0
    /\ seenPaths = {}
    /\ pi = 1
    /\ ei = 1
    /\ skipped = {}
    /\ exit = ExitSuccess
    /\ report = NoReport
    /\ writes = 0
    /\ log = <<>>
    /\ prevForced = FALSE
    /\ prev = NoPrev

Fresh == Quiet /\ planned = <<>>

Init ==
    /\ \E inv \in Invocations, o \in OutputStates :
          /\ fs = inv[1] @@ o
          /\ args = inv[2]
    /\ fs0 = fs
    /\ call = NoCall
    /\ Fresh

Next ==
    \/ \E force \in BOOLEAN, dryRun \in BOOLEAN : RunRenderCmd(force, dryRun)
    \/ executeFileMode
    \/ executeFileIntoDirMode
    \/ LoadRenderConfig
    \/ DirCollect
    \/ DirValidate
    \/ EachDirItem
    \/ EachDirCollected
    \/ CheckCollisions
    \/ DryRun
    \/ ExecuteStep
    \/ ExecuteReturn
    \/ EachFileItem
    \/ EachFileCheckCollisions
    \/ EachFileWrite
    \/ EachFileDone

Spec == Init /\ [][Next]_vars

-----------------------------------------------------------------------------
(* mode inference on its own: every output string up to MaxLen over the    *)
(* characters that matter, for a template that is a directory or a file    *)

MaxLen == 5

Alphabet == {"{", "}", "/", "a"}

Strings(n) == UNION {[1..m -> Alphabet] : m \in 0..n}

InitInfer ==
    /\ \E t \in {TemplateDir, Src(RelATmpl)}, o \in Strings(MaxLen) :
          args = Args(t, DataA, o, NoControl)
    /\ fs = TreePrintAndCopy
    /\ fs0 = fs
    /\ call = NoCall
    /\ Fresh

NextInfer == \E force \in BOOLEAN, dryRun \in BOOLEAN : RunRenderCmd(force, dryRun)

SpecInfer == InitInfer /\ [][NextInfer]_vars

-----------------------------------------------------------------------------
(* Plan.Validate on its own: every plan of up to MaxPlanLen entries *)

MaxPlanLen == 3

Sources == {<<"a">>, <<"b">>, <<"c">>}

Entries == {Output(src, out, <<>>, <<>>, TRUE) : src \in Sources, out \in {OutA, OutB}}

Plans(n) == UNION {[1..m -> Entries] : m \in 0..n}

InitValidate ==
    /\ \E p \in Plans(MaxPlanLen) : planned = <<p>>
    /\ fs = TreePrintAndCopy
    /\ fs0 = fs
    /\ args = Args(TemplateDir, DataA, OutputStatic, NoControl)
    /\ call = NoCall
    /\ Quiet

CallValidate ==
    /\ call.op = "none"
    /\ call' = [op |-> "Validate", errs |-> Validate(planned[1])]
    /\ UNCHANGED <<fs, runVars>>

SpecValidate == InitValidate /\ [][CallValidate]_vars

-----------------------------------------------------------------------------
(* the Writer on its own: one call of any method, on any destination, with  *)
(* either force, from every state of the output tree                       *)

WriterPaths == {OutA, OutB, OutA \o <<"/">> \o RelA}

WriterContents == {<<"a">>, <<"b">>}

WriterSources == {Src(RelATmpl), Src(RelB), Src(RelA)}

Called(op, force, path, content, r) ==
    /\ call.op = "none"
    /\ fs' = r.fs
    /\ call' = [op |-> op, force |-> force, path |-> path, content |-> content,
                before |-> NodeAt(fs, path), err |-> r.err, wrote |-> r.wrote,
                skipped |-> r.skipped]
    /\ UNCHANGED runVars

CallWrite ==
    \E force \in BOOLEAN, path \in WriterPaths, content \in WriterContents :
        Called("Write", force, path, content, Write(fs, force, path, content))

CallWriteWithPerm ==
    \E force \in BOOLEAN, path \in WriterPaths, content \in WriterContents :
        Called("WriteWithPerm", force, path, content, WriteWithPerm(fs, force, path, content))

CallCopy ==
    \E force \in BOOLEAN, src \in WriterSources, dst \in WriterPaths :
        Called("Copy", force, dst, ReadFile(fs, src).data, Copy(fs, force, src, dst))

CallWriteIfNotExists ==
    \E force \in BOOLEAN, path \in WriterPaths, content \in WriterContents :
        Called("WriteIfNotExists", force, path, content, WriteIfNotExists(fs, path, content))

CallCopyIfNotExists ==
    \E force \in BOOLEAN, src \in WriterSources, dst \in WriterPaths :
        Called("CopyIfNotExists", force, dst, ReadFile(fs, src).data,
               CopyIfNotExists(fs, src, dst))

InitWriter ==
    /\ \E o \in OutputStates : fs = TreePrintAndCopy @@ o
    /\ fs0 = fs
    /\ args = Args(TemplateDir, DataA, OutputStatic, NoControl)
    /\ call = NoCall
    /\ Fresh

NextWriter ==
    \/ CallWrite
    \/ CallWriteWithPerm
    \/ CallCopy
    \/ CallWriteIfNotExists
    \/ CallCopyIfNotExists

SpecWriter == InitWriter /\ [][NextWriter]_vars

-----------------------------------------------------------------------------
(* the command on inputs that its safety checks are for: control files with *)
(* a traversal in a source key or in a rendered path, items that render a   *)
(* traversal, symbolic links in the template tree or as the template        *)
(* source, colliding items                                                  *)

RelD == <<"d">>

RelDB == <<"d", "/", "b">>

Outside == <<"/", "s">>

LinkToDir == <<"/", "l">>

LinkToFile == <<"/", "m">>

\* a template, a directory and a static file in it
TreeNested ==
    TreeOf((Src(RelATmpl) :> FileNode(PrintDot)) @@ (Src(RelD) :> DirNode)
           @@ (Src(RelDB) :> FileNode(<<"b">>)))

\* a link in the tree to a file outside it
TreeWithSymlink ==
    TreePrintAndCopy @@ (Src(<<"l">>) :> SymlinkNode(Outside))
                     @@ (Outside :> FileNode(<<"s">>))

\* links to the template directory and to a template file
TreeLinkedSource ==
    TreePrintAndCopy @@ (LinkToDir :> SymlinkNode(TemplateDir))
                     @@ (LinkToFile :> SymlinkNode(Src(RelATmpl)))

\* "d": {path: "d", overwrite: false}
CfgProtectDir == Config((RelD :> RelD), {RelD})

\* "d/b": {path: "d/b", overwrite: false}
CfgProtectNestedFile == Config((RelDB :> RelDB), {RelDB})

\* a control file at the top level and one below it, a template, an empty
\* directory
TreeWithControlFiles ==
    TreeOf((Src(RelATmpl) :> FileNode(PrintDot))
           @@ (Src(configFileNames[1]) :> FileNode(<<>>))
           @@ (Src(RelD) :> DirNode)
           @@ (Src(RelD \o <<"/">> \o configFileNames[1]) :> FileNode(<<"b">>))
           @@ (Src(<<"e">>) :> DirNode))

\* a file whose name has two dots in a row
TreeDotDotName == TreeOf((Src(<<"a", ".", ".", "b">>) :> FileNode(<<"b">>)))

\* "../b": "b"
CfgKeyTraversal == Config((<<".", ".", "/", "b">> :> RelB), {})

\* "b": "../b"
CfgRenderedTraversal == Config((RelB :> <<".", ".", "/", "b">>), {})

\* "b": "{{.}}"
CfgRenderedFromData == Config((RelB :> PrintDot), {})

\* "d": "../d"
CfgDirTraversal == Config((RelD :> <<".", ".", "/", "d">>), {})

\* "d": "e"
CfgDirRenamed == Config((RelD :> <<"e">>), {})

\* output: "x" beside paths
CfgUnknownKey == [Config((RelB :> RelB), {}) EXCEPT !.keys = {"paths", "output"}]

\* "b": {overwrite: true}
CfgNoPath == Config((RelB :> <<>>), {})

\* "/b": "b"
CfgAbsoluteKey == Config((<<"/", "b">> :> RelB), {})

\* "b\x00": "b"
CfgNulKey == Config((<<"b", Nul>> :> RelB), {})

\* "b": "b", "c": "b" where the tree has no c
CfgMissingSource == Config((RelB :> RelB) @@ (<<"c">> :> RelB), {})

\* "b": "{{"
CfgBadSyntax == Config((RelB :> Unclosed), {})

\* "a.tmpl": ""
CfgEmptyPath == [control |-> TRUE, keys |-> {"paths"}, paths |-> (RelATmpl :> ScalarMapping(<<>>))]

\* "b": ""
CfgEmptyCopyPath == [control |-> TRUE, keys |-> {"paths"}, paths |-> (RelB :> ScalarMapping(<<>>))]

\* "b": "/b"
CfgAbsolutePath == Config((RelB :> <<"/", "b">>), {})

\* "a.tmpl": "b.tmpl"
CfgSuffixPath == Config((RelATmpl :> RelBTmpl), {})

\* rules whose output paths are empty, absolute or end in the suffix
EdgeControls == {CfgEmptyPath, CfgEmptyCopyPath, CfgAbsolutePath, CfgSuffixPath}

\* an output directory whose name ends in the suffix of templates
OutputTmplDir == OutputDir \o TmplSuffix

\* control files Parse refuses
BadControls ==
    {CfgKeyTraversal, CfgUnknownKey, CfgNoPath, CfgAbsoluteKey, CfgNulKey, CfgMissingSource,
     CfgBadSyntax}

SafetyDirSetups ==
    {<<TreePrintAndCopy, NoControl>>, <<TreePrintAndCopy, CfgKeyTraversal>>,
     <<TreePrintAndCopy, CfgRenderedTraversal>>, <<TreePrintAndCopy, CfgRenderedFromData>>,
     <<TreeNested, CfgDirTraversal>>, <<TreeNested, CfgDirRenamed>>,
     <<TreeWithSymlink, NoControl>>, <<TreeWithSymlink, CfgKeyTraversal>>,
     <<TreeDotDotName, NoControl>>, <<TreeSuffixClash, NoControl>>}
    \cup {<<TreePrintAndCopy, c>> : c \in BadControls}
    \cup {<<TreeNested, NoControl>>, <<TreeWithControlFiles, NoControl>>}
    \cup {<<TreeNested, CfgProtectDir>>, <<TreeNested, CfgProtectNestedFile>>}

SafetyData ==
    {List(<<ItemA, ItemDotDot>>), List(<<ItemA, ItemA>>), List(<<ItemA, ItemB>>),
     List(<<ItemB, ItemA, ItemA>>)}

SafetyInvocations ==
    {<<s[1], Args(TemplateDir, d, OutputStatic, s[2])>> :
        s \in SafetyDirSetups, d \in {DataA, ItemDotDot}}
    \cup {<<s[1], Args(TemplateDir, d, OutputEach, s[2])>> :
        s \in SafetyDirSetups, d \in SafetyData}
    \cup {<<TreePrintAndCopy, Args(Src(RelATmpl), d, OutputEach, NoControl)>> : d \in SafetyData}
    \cup {<<TreePrintAndCopy, Args(TemplateDir, DataA, o, c)>> :
            o \in {OutputStatic, OutputTmplDir}, c \in EdgeControls}
    \cup {<<TreePrintAndCopy, Args(Src(RelATmpl), DataA, o, NoControl)>> :
        o \in {OutputFile, OutputIntoDir}}
    \cup {<<TreeLinkedSource, Args(LinkToDir, DataA, o, NoControl)>> :
        o \in {OutputStatic, OutputEach}}
    \cup {<<TreeLinkedSource, Args(LinkToFile, DataA, o, NoControl)>> :
        o \in {OutputFile, OutputIntoDir, OutputEach}}

SafetyOutputStates ==
    {OutputTree(Absent, Absent), OutputTree(FileNode(<<"b">>), Absent),
     OutputTree(FileNode(<<"a">>), FileNode(<<"b">>))}

InitSafety ==
    /\ \E inv \in SafetyInvocations, o \in SafetyOutputStates :
          /\ fs = inv[1] @@ o
          /\ args = inv[2]
    /\ fs0 = fs
    /\ call = NoCall
    /\ Fresh

SpecSafety == InitSafety /\ [][Next]_vars

-----------------------------------------------------------------------------
(* PathMapper.TransformPath on its own: a control file is parsed against   *)
(* a tree with the directories src, src/main and srcfoo, and a path of the *)
(* tree is transformed                                                     *)

RelSrc == <<"s", "r", "c">>

RelSrcMain == RelSrc \o <<"/", "m", "a", "i", "n">>

RelSrcfoo == RelSrc \o <<"f", "o", "o">>

RelSrd == <<"s", "r", "d">>

RelX == <<"x">>

Under(dir, name) == dir \o <<"/">> \o name

TreeSrc ==
    TreeOf((Src(RelSrc) :> DirNode) @@ (Src(RelSrcMain) :> DirNode)
           @@ (Src(RelSrcfoo) :> DirNode) @@ (Src(RelSrd) :> DirNode)
           @@ (Src(Under(RelSrc, RelX)) :> FileNode(<<"x">>))
           @@ (Src(Under(RelSrcMain, RelX)) :> FileNode(<<"x">>))
           @@ (Src(Under(RelSrcfoo, RelX)) :> FileNode(<<"x">>))
           @@ (Src(Under(RelSrd, RelX)) :> FileNode(<<"x">>)))

\* the relative paths a walk of TreeSrc hands to TransformPath
MapperPaths ==
    {RelSrc, RelSrcMain, RelSrcfoo, RelSrd, Under(RelSrc, RelX), Under(RelSrcMain, RelX),
     Under(RelSrcfoo, RelX), Under(RelSrd, RelX)}

\* "src": "{{.}}", "src/main": "src/b", "srcfoo": "c", "srd": "e"
DirRules ==
    (RelSrc :> PrintDot) @@ (RelSrcMain :> Under(RelSrc, <<"b">>)) @@ (RelSrcfoo :> <<"c">>)
    @@ (RelSrd :> <<"e">>)

\* what "src/x" is mapped to: a path under src/main, a path under no
\* directory of the tree, the directory srcfoo itself
FileRuleResults == {Under(RelSrcMain, <<"y">>), Under(<<"z">>, <<"y">>), RelSrcfoo}

Restrict(f, S) == [x \in S |-> f[x]]

MapperControls ==
    {Config(Restrict(DirRules, S), {}) : S \in SUBSET DOMAIN DirRules}
    \cup {Config(Restrict(DirRules, S) @@ (Under(RelSrc, RelX) :> r), {}) :
            S \in SUBSET DOMAIN DirRules, r \in FileRuleResults}

InitMapper ==
    /\ \E c \in MapperControls : args = Args(TemplateDir, DataA, OutputStatic, c)
    /\ fs = TreeSrc
    /\ fs0 = fs
    /\ call = NoCall
    /\ Fresh

\* config.LoadFile, NewPathMapper and TransformPath of one path
CallTransformPath ==
    /\ \E ld \in LoadFile(fs, args.cfg, args.template), relPath \in MapperPaths :
          /\ ld.err = ErrNil
          /\ call' = [op |-> "TransformPath", cfg |-> ld.cfg, relPath |-> relPath,
                      res |-> TransformPath(ld.cfg, relPath, args.data)]
    /\ UNCHANGED <<fs, runVars>>

SpecMapper == InitMapper /\ [][CallTransformPath]_vars

-----------------------------------------------------------------------------
(* properties *)

Items == getIterableItems(args.data)

RunItems == IF mode = modeDirectory THEN {args.data} ELSE {Items[i] : i \in 1..Len(Items)}

SamePath(plan, i, j) == plan[i].OutputPath = plan[j].OutputPath

PairwiseDistinct(plan) ==
    \A i \in 1..Len(plan), j \in 1..Len(plan) : i # j => ~SamePath(plan, i, j)

HasDuplicateOutputs(plan) ==
    \E i \in 1..Len(plan), j \in 1..Len(plan) : i < j /\ SamePath(plan, i, j)

\* the files of the template tree, and those of them that are templates
TreeFiles(f) ==
    {p \in DOMAIN f : f[p].kind = "file" /\ HasPrefix(p, TemplateDir \o <<"/">>)}

RenderFails(f, item) ==
    \E p \in TreeFiles(f) : HasSuffix(p, TmplSuffix) /\ RenderString(f[p].data, item).err

\* C1: in directory and each-directory modes the filesystem differs from what
\* the run found only when the run has a plan for every item, every plan has an
\* entry for every file of the template tree, no two entries of a plan or of
\* two plans share an output path and no template fails to render; and a run
\* in which a template fails to render for some item ends in failure with the
\* filesystem as it found it.
WritesOnlyAfterCollectAndValidate ==
    (mode \in DirModes /\ pc # "idle") =>
        /\ fs # fs0 =>
              /\ pc \in {"checked", "done"}
              /\ ~flags.dryRun
              /\ Len(planned) = (IF mode = modeDirectory THEN 1 ELSE Len(Items))
              /\ \A j \in 1..Len(planned) :
                    /\ Len(planned[j]) = Cardinality(TreeFiles(fs0))
                    /\ PairwiseDistinct(planned[j])
                    /\ \A h \in 1..Len(planned) : h # j =>
                          \A a \in 1..Len(planned[j]), b \in 1..Len(planned[h]) :
                              planned[j][a].OutputPath # planned[h][b].OutputPath
              /\ \A item \in RunItems : ~RenderFails(fs0, item)
        /\ (pc = "done" /\ \E item \in RunItems : RenderFails(fs0, item)) =>
              fs = fs0 /\ exit # ExitSuccess

\* C1 witness: an each-directory run over two items has written
WritesAfterTwoItemsCollected ==
    /\ mode = modeEachDirectory
    /\ pc = "done"
    /\ Len(planned) = 2
    /\ writes > 0
    /\ fs # fs0

\* C2: in directory mode, when the collected plan has two entries on one
\* output path the run stops after Validate: Execute takes no step, the run
\* ends in failure and the filesystem is what the run found.
ValidationFailureWritesNothing ==
    (mode = modeDirectory /\ pc # "idle" /\ Len(planned) = 1
        /\ HasDuplicateOutputs(planned[1])) =>
        /\ pc \in {"collected", "done"}
        /\ log = <<>>
        /\ writes = 0
        /\ fs = fs0
        /\ pc = "done" => exit = ExitRuntimeError

\* C2 witness: a directory run with a colliding plan has ended
CollidingPlanRejected ==
    /\ mode = modeDirectory
    /\ pc = "done"
    /\ Len(planned) = 1
    /\ HasDuplicateOutputs(planned[1])
    /\ exit = ExitRuntimeError

\* C3: Validate returns no error exactly when the output paths of the plan are
\* pairwise distinct, and for every output path that two entries share it
\* returns at least one error about that path.
ValidateFindsEverySharedPath ==
    call.op = "Validate" =>
        LET plan == planned[1] IN
        /\ (Len(call.errs) = 0) <=> PairwiseDistinct(plan)
        /\ \A i \in 1..Len(plan), j \in 1..Len(plan) :
              (i < j /\ SamePath(plan, i, j)) =>
                  \E e \in 1..Len(call.errs) : call.errs[e].path = plan[i].OutputPath

\* C3 witness: Validate has run on three entries of which two share a path
ValidateRanOnSharedPath ==
    /\ call.op = "Validate"
    /\ Len(planned[1]) = 3
    /\ SamePath(planned[1], 2, 3)
    /\ ~SamePath(planned[1], 1, 2)
    /\ Len(call.errs) = 1

\* C4: for every two entries of a plan that share an output path, Validate
\* returns an error about that path that names the source paths of both.
ValidateNamesEveryPair ==
    call.op = "Validate" =>
        LET plan == planned[1] IN
        \A i \in 1..Len(plan), j \in 1..Len(plan) :
            (i < j /\ SamePath(plan, i, j)) =>
                \E e \in 1..Len(call.errs) :
                    /\ call.errs[e].path = plan[i].OutputPath
                    /\ {call.errs[e].first, call.errs[e].second}
                          = {plan[i].SourcePath, plan[j].SourcePath}

\* C4 witness: three entries from three sources on one output path, and no
\* error names the first and the third
FirstAndThirdNeverNamed ==
    /\ call.op = "Validate"
    /\ Len(planned[1]) = 3
    /\ SamePath(planned[1], 1, 2)
    /\ SamePath(planned[1], 2, 3)
    /\ Cardinality({planned[1][i].SourcePath : i \in 1..3}) = 3
    /\ \A e \in 1..Len(call.errs) :
          {call.errs[e].first, call.errs[e].second}
              # {planned[1][1].SourcePath, planned[1][3].SourcePath}

\* C5: for an entry with overwrite=false, Execute leaves a file that exists at
\* the destination as it is and records the path as skipped, with force or
\* without; it creates the destination with the entry's bytes when nothing is
\* there and does not record it; and a path is recorded as skipped only for an
\* entry with overwrite=false whose destination existed.
NoOverwriteProtection ==
    /\ \A i \in 1..Len(log) :
          LET e == log[i] IN
          /\ (~e.out.Overwrite /\ e.before.st = "file") =>
                e.after = e.before /\ e.skipped /\ ~e.wrote /\ e.err = ErrNil
          /\ (~e.out.Overwrite /\ e.before.st = "ENOENT") =>
                /\ e.after = [st |-> "file", data |-> e.expected]
                /\ ~e.skipped
                /\ e.err = ErrNil
          /\ e.skipped => ~e.out.Overwrite /\ StatOk(e.before.st)
    /\ \A p \in skipped :
          \E i \in 1..Len(log) :
              /\ log[i].out.OutputPath = p
              /\ ~log[i].out.Overwrite
              /\ StatOk(log[i].before.st)

\* C5 witness: with force, Execute has met a protected entry whose destination
\* holds other bytes than the entry's
ProtectedEntryMetOtherBytes ==
    \E i \in 1..Len(log) :
        /\ ~log[i].out.Overwrite
        /\ log[i].force
        /\ log[i].before.st = "file"
        /\ log[i].before.data # log[i].expected
        /\ log[i].out.OutputPath \in skipped

\* C6: a run with force that follows a run with force of the same command
\* writes no file and leaves the filesystem as it found it.
ForcedRerunWritesNothing ==
    (pc = "done" /\ prevForced /\ flags.force /\ ~flags.dryRun) =>
        writes = 0 /\ fs = fs0

\* C6 witness: the second of two forced runs has written a file
ForcedRerunWrote ==
    /\ pc = "done"
    /\ prevForced
    /\ flags.force
    /\ ~flags.dryRun
    /\ exit = ExitSuccess
    /\ writes > 0

\* C7: for an entry with overwrite=true whose destination is a file with the
\* bytes the entry would write, Execute writes nothing and returns no error,
\* with force or without; it returns the conflict error only without force
\* and for a destination with other bytes.
IdenticalContentIsSkipped ==
    \A i \in 1..Len(log) :
        LET e == log[i] IN
        e.out.Overwrite =>
            /\ (e.before.st = "file" /\ e.before.data = e.expected) =>
                  e.err = ErrNil /\ ~e.wrote
            /\ e.err = ErrAlreadyExists =>
                  ~e.force /\ e.before.st = "file" /\ e.before.data # e.expected

\* C7 witness: without force, Execute has failed on a destination that holds
\* the bytes the entry would write
IdenticalContentRefused ==
    \E i \in 1..Len(log) :
        /\ log[i].out.Overwrite
        /\ ~log[i].force
        /\ log[i].before.st = "file"
        /\ log[i].before.data = log[i].expected
        /\ log[i].err = ErrAlreadyExists

\* C8: without force, Write, WriteWithPerm and Copy leave a file that exists
\* at the destination with its bytes, and return an error when the bytes
\* they were given differ from them.
NoForceNeverChangesExisting ==
    (call.op \in {"Write", "WriteWithPerm", "Copy"} /\ ~call.force
        /\ call.before.st = "file") =>
        /\ NodeAt(fs, call.path) = call.before
        /\ ~call.wrote
        /\ call.before.data # call.content => call.err # ErrNil

\* C8 witness: Copy without force has met a destination with other bytes
CopyRefusedOverOtherBytes ==
    /\ call.op = "Copy"
    /\ ~call.force
    /\ call.before.st = "file"
    /\ call.before.data # call.content
    /\ call.err = ErrAlreadyExists

\* C9: a directory run without force in which Execute has started never gets
\* the conflict error from Execute, and a directory run without force that
\* ends with the output-conflict exit code has left the filesystem as it
\* found it.
NoConflictAfterPreCheck ==
    (mode = modeDirectory /\ pc = "done" /\ ~flags.force) =>
        /\ \A i \in 1..Len(log) : log[i].err # ErrAlreadyExists
        /\ exit = ExitOutputConflict => fs = fs0

\* C9 witness: a directory run without force has ended with the
\* output-conflict exit code after it created a file
ConflictAfterAWrite ==
    /\ mode = modeDirectory
    /\ pc = "done"
    /\ ~flags.force
    /\ exit = ExitOutputConflict
    /\ writes > 0
    /\ fs # fs0

IsDynamic(o) ==
    /\ \E i \in 1..Len(o) : i < Len(o) /\ o[i] = "{" /\ o[i + 1] = "{"
    /\ \E i \in 1..Len(o) : i < Len(o) /\ o[i] = "}" /\ o[i + 1] = "}"

EndsWithSeparator(o) == Len(o) > 0 /\ o[Len(o)] = "/"

ModeTable(isDir, o) ==
    IF isDir /\ IsDynamic(o) THEN modeEachDirectory
    ELSE IF isDir THEN modeDirectory
    ELSE IF IsDynamic(o) THEN modeEachFile
    ELSE IF EndsWithSeparator(o) THEN modeFileIntoDir
    ELSE modeFile

DryRunWritesNothing ==
    (flags.dryRun /\ pc # "idle") =>
        /\ fs = fs0
        /\ writes = 0
        /\ log = <<>>

\* C11 witness: a dry run with force over a tree whose outputs do not exist
\* has reported two actions and ended
DryRunReportedTwoActions ==
    /\ flags.dryRun
    /\ flags.force
    /\ pc = "done"
    /\ mode = modeDirectory
    /\ report.Status = "dry-run"
    /\ Len(report.Files) = 2
    /\ \A i \in 1..2 : Stat(fs, report.Files[i].Path) = "ENOENT"


\* an action of a report that says the path was left as it is
IsSkip(action) ==
    action \in {"skip (exists, no-overwrite)", "skipped (exists, no-overwrite)",
                "skipped (identical)"}

\* C12: a real run that follows a dry run of the same command with the same
\* force, both successful, reports the same paths as the dry run did, and a
\* skip for a path exactly when the dry run reported a skip for it.
DryRunClassifiesAsRealRun ==
    (pc = "done" /\ ~flags.dryRun /\ exit = ExitSuccess
        /\ prev.ran /\ prev.dryRun /\ prev.force = flags.force /\ prev.unchanged
        /\ prev.exit = ExitSuccess) =>
        /\ Len(prev.report.Files) = Len(report.Files)
        /\ \A i \in 1..Len(report.Files) :
              /\ prev.report.Files[i].Path = report.Files[i].Path
              /\ IsSkip(prev.report.Files[i].Action) <=> IsSkip(report.Files[i].Action)

\* C12 witness: in file mode the dry run reported "create" for a path that the
\* real run then skipped as identical, writing nothing
DryRunSaidCreateRealRunSkipped ==
    /\ pc = "done"
    /\ mode = modeFile
    /\ ~flags.dryRun
    /\ ~flags.force
    /\ prev.ran /\ prev.dryRun /\ ~prev.force /\ prev.unchanged
    /\ prev.report.Files = <<fileAction(args.output, "create")>>
    /\ report.Files = <<fileAction(args.output, "skipped (identical)")>>
    /\ writes = 0


\* a ".." between slashes, or at either end of the path
HasDotDotSegment(path) ==
    \E i \in 1..Len(path) - 1 :
        /\ path[i] = "." /\ path[i + 1] = "."
        /\ (i = 1 \/ path[i - 1] = "/")
        /\ (i + 1 = Len(path) \/ path[i + 2] = "/")

\* the control file of a directory mode has a source key with a ".." segment
KeyTraversal ==
    /\ mode \in DirModes
    /\ args.cfg.control
    /\ \E src \in DOMAIN args.cfg.paths : HasDotDotSegment(src)

\* a rule of the control file of a directory mode renders, for an item of
\* the run, a path with a ".." segment
RenderedTraversal ==
    /\ mode \in DirModes
    /\ args.cfg.control
    /\ \E src \in DOMAIN args.cfg.paths, item \in RunItems :
          /\ ~RenderString(args.cfg.paths[src].path, item).err
          /\ HasDotDotSegment(RenderString(args.cfg.paths[src].path, item).out)

\* the output path of an each mode renders, for an item, a path with a ".."
\* segment
ItemTraversal ==
    /\ mode \in {modeEachFile, modeEachDirectory}
    /\ \E item \in RunItems :
          /\ ~RenderString(args.output, item).err
          /\ HasDotDotSegment(RenderString(args.output, item).out)

\* C13: a run whose control file has a ".." segment in a source key or in a
\* rendered output path, or whose each-mode output path renders a ".."
\* segment for any item, first or not, ends in failure and writes nothing at
\* any point.
TraversalWritesNothing ==
    (pc \notin {"idle"} /\ (KeyTraversal \/ RenderedTraversal \/ ItemTraversal)) =>
        /\ fs = fs0
        /\ writes = 0
        /\ log = <<>>
        /\ pc = "done" => exit # ExitSuccess

\* C13 witness: the second item of an each-file run rendered the traversal,
\* after the first item had been rendered and planned
LaterItemTraversalRejected ==
    /\ pc = "done"
    /\ mode = modeEachFile
    /\ ItemTraversal
    /\ ~HasDotDotSegment(RenderString(args.output, Items[1]).out)
    /\ Len(planned) = 1
    /\ exit = ExitSafetyViolation
    /\ fs = fs0


\* the messages with which a path traversal is reported
TraversalMsgs ==
    {configErr.traversal, configErr.rendered, collectErr.walked, cliMsg.outputTraversal}

\* C14: a command that ends on a detected path traversal (in a control-file
\* source key, in a rendered output path, in a walked source-relative path)
\* ends with the exit code of a safety violation.
TraversalExitsWithSafetyViolation ==
    (pc = "done" /\ report.Msg \in TraversalMsgs) => exit = ExitSafetyViolation

\* C14 witness: the rendered path of a control-file mapping had a ".."
\* segment and the command ended with the exit code of a runtime error
RenderedTraversalExitedWithRuntimeError ==
    /\ pc = "done"
    /\ mode = modeDirectory
    /\ args.cfg = CfgRenderedTraversal
    /\ report.Msg = configErr.rendered
    /\ exit = ExitRuntimeError
    /\ fs = fs0


\* the template source is a symbolic link
SourceIsSymlink == Lstat(fs0, args.template) = "symlink"

\* a directory mode runs on a tree with a symbolic link in it
SymlinkInTree ==
    /\ mode \in DirModes
    /\ Lstat(fs0, args.template) = "dir"
    /\ \E p \in DOMAIN fs0 :
          /\ HasPrefix(p, Abs(args.template) \o <<Separator>>)
          /\ fs0[p].kind = "symlink"

\* C15: when the template source is a symbolic link, or the tree of a
\* directory mode contains one, the command ends with the exit code of a
\* safety violation, with no plan collected and nothing written.
SymlinkRejectedAsSafetyViolation ==
    (pc = "done" /\ (SourceIsSymlink \/ SymlinkInTree)) =>
        /\ exit = ExitSafetyViolation
        /\ planned = <<>>
        /\ fs = fs0
        /\ writes = 0

\* C15 witness: the tree has a symbolic link, the control file does not
\* load, and the command ended with the exit code of an input error
SymlinkTreeExitedWithInputValidation ==
    /\ pc = "done"
    /\ SymlinkInTree
    /\ args.cfg = CfgKeyTraversal
    /\ exit = ExitInputValidation
    /\ report.Msg = configErr.traversal


\* the messages with which a command is rejected for a path traversal, a
\* symbolic link or a collision of output paths
RejectionMsgs ==
    TraversalMsgs \cup {cliMsg.symlink, cliMsg.internalCollision, cliMsg.validationFailed}

\* this command and the one before it had the same inputs and found the same
\* filesystem, and differ in the force flag only
DiffersInForceOnly ==
    /\ pc = "done"
    /\ prev.ran
    /\ prev.unchanged
    /\ prev.dryRun = flags.dryRun
    /\ prev.force # flags.force

\* the paths the command is to write and may overwrite
Destinations ==
    IF mode = modeFile THEN {args.output}
    ELSE IF mode = modeFileIntoDir
    THEN {Join(TrimSuffix(args.output, <<"/">>), TrimSuffix(Base(args.template), TmplSuffix))}
    ELSE IF mode = modeEachFile THEN {planned[i].path : i \in 1..Len(planned)}
    ELSE {AllOutputs(planned)[i].OutputPath :
            i \in {j \in 1..Len(AllOutputs(planned)) : AllOutputs(planned)[j].Overwrite}}

\* C16: two commands on the same inputs and the same filesystem that differ
\* in the force flag only are rejected alike for a path traversal, a
\* symbolic link or a collision of output paths; they differ at all only
\* when a destination that may be overwritten exists already.
ForceLeavesRejectionsAlone ==
    DiffersInForceOnly =>
        /\ (report.Msg \in RejectionMsgs \/ prev.report.Msg \in RejectionMsgs) =>
               /\ prev.exit = exit
               /\ prev.report = report
        /\ (prev.exit # exit \/ prev.report # report) =>
               \E d \in Destinations : StatOk(Stat(fs0, d))

\* C16 witness: an each-mode collision of two items, rejected with force as
\* it was without
CollisionRejectedWithForceToo ==
    /\ DiffersInForceOnly
    /\ flags.force
    /\ ~flags.dryRun
    /\ report.Msg = cliMsg.internalCollision
    /\ prev.report.Msg = cliMsg.internalCollision
    /\ exit = ExitRuntimeError
    /\ fs = fs0


\* the prefixes of the control file that name a directory of the tree
DirPrefixes ==
    {src \in DOMAIN args.cfg.paths : Stat(fs, Join(args.template, src)) = "dir"}

\* the prefixes that equal the path or are followed by "/" in it
Matching(path) ==
    {p \in DirPrefixes : path = p \/ HasPrefix(path, p \o <<"/">>)}

Longest(prefixes) == CHOOSE p \in prefixes : \A q \in prefixes : Len(q) <= Len(p)

\* a path with its prefix replaced by what the rule of the prefix renders
Reprefixed(path, prefix) ==
    RenderString(args.cfg.paths[prefix].path, args.data).out
        \o SubSeq(path, Len(prefix) + 1, Len(path))

HasFileRule(relPath) == relPath \in DOMAIN args.cfg.paths \ DirPrefixes

\* the path the directory rules are matched against
WorkingPath(relPath) ==
    IF HasFileRule(relPath)
    THEN RenderString(args.cfg.paths[relPath].path, args.data).out
    ELSE relPath

\* C17: TransformPath applies one directory rule, that of the longest prefix
\* which equals the working path or is followed by "/" in it, and applies no
\* rule to what comes out; a prefix that ends inside a segment of the path
\* does not match; with no matching prefix the working path is returned.
LongestMatchingPrefixWins ==
    (call.op = "TransformPath" /\ ~call.res.err) =>
        call.res.path =
            IF Matching(WorkingPath(call.relPath)) = {}
            THEN WorkingPath(call.relPath)
            ELSE Reprefixed(WorkingPath(call.relPath),
                            Longest(Matching(WorkingPath(call.relPath))))

\* C17 witness: with rules for src and for src/main, src/main/x went to
\* src/b/x: the rule of src/main was applied, the rule of src to nothing
InnerRuleWonOverOuter ==
    /\ call.op = "TransformPath"
    /\ {RelSrc, RelSrcMain} \subseteq DirPrefixes
    /\ call.relPath = Under(RelSrcMain, RelX)
    /\ call.res.path = Under(Under(RelSrc, <<"b">>), RelX)

ItemPath(i) == TrimSpace(RenderString(args.output, Items[i]).out)

\* the body template rendered for the i-th item
ItemBody(i) == RenderString(ReadFile(fs0, args.template).data, Items[i]).out

\* the regular files the command created
CreatedFiles == {p \in DOMAIN fs \ DOMAIN fs0 : fs[p].kind = "file"}

\* a successful each-file command whose items render pairwise different
\* output paths, none of which exists before the command
EachFileOfDistinctNewPaths ==
    /\ pc = "done"
    /\ mode = modeEachFile
    /\ ~flags.dryRun
    /\ exit = ExitSuccess
    /\ \A i, j \in 1..Len(Items) : i # j => ItemPath(i) # ItemPath(j)
    /\ \A i \in 1..Len(Items) : Stat(fs0, ItemPath(i)) = "ENOENT"

\* C19: a successful each-file command over N items with pairwise different
\* rendered output paths and no destination there before creates N files,
\* the i-th at the path of item i with the body rendered for item i; data
\* that is not a list is one item and an empty list creates no file.
EachFileCreatesOneFilePerItem ==
    EachFileOfDistinctNewPaths =>
        /\ Cardinality(CreatedFiles) = Len(Items)
        /\ \A i \in 1..Len(Items) :
              /\ Stat(fs, ItemPath(i)) = "file"
              /\ ReadFile(fs, ItemPath(i)).data = ItemBody(i)
        /\ ~args.data.list => Len(Items) = 1

\* C19 witness: the items a and ./a rendered two different paths, the
\* forced command succeeded and created one file, with the body of ./a
TwoItemsLeftOneFile ==
    /\ EachFileOfDistinctNewPaths
    /\ flags.force
    /\ args.data = List(<<ItemA, ItemAliasA>>)
    /\ CreatedFiles = {OutA}
    /\ ReadFile(fs, OutA).data = <<".", "/", "a">>
    /\ writes = 2


\* every item of an each-file command renders a path without ".." and its
\* body
EachFileItemsRender ==
    /\ ~ReadFile(fs0, args.template).err
    /\ \A i \in 1..Len(Items) :
          /\ ~RenderString(args.output, Items[i]).err
          /\ validateOutputPath(ItemPath(i))
          /\ ~RenderString(ReadFile(fs0, args.template).data, Items[i]).err

\* the plan Collect makes for the i-th item of an each-directory command
ItemPlan(i) == Collect(fs0, args.template, ItemPath(i), Items[i], parsedCfg)

\* the control file of a directory mode loads and the tree has no link
ConfigLoads ==
    /\ \A ld \in (IF args.cfg.control THEN LoadFile(fs0, args.cfg, args.template)
                   ELSE Load(fs0, args.cfg, args.template)) : ld.err = ErrNil
    /\ ~checkDirForSymlinks(fs0, args.template)

\* every item of an each-directory command renders a path without ".."
EachDirItemsRender ==
    \A i \in 1..Len(Items) :
        /\ ~RenderString(args.output, Items[i]).err
        /\ validateOutputPath(ItemPath(i))

\* two planned outputs of the command, of different items or of one, have
\* the same output path
PlannedTwice ==
    \/ /\ mode = modeEachFile
       /\ EachFileItemsRender
       /\ \E i, j \in 1..Len(Items) : i # j /\ ItemPath(i) = ItemPath(j)
    \/ /\ mode = modeEachDirectory
       /\ pc \notin {"start"}
       /\ ConfigLoads
       /\ EachDirItemsRender
       /\ \E plans \in {[i \in 1..Len(Items) |-> ItemPlan(i)]} :
             /\ \A i \in 1..Len(Items) : ~plans[i].err
             /\ \E i, j \in 1..Len(Items) :
                \E m \in 1..Len(plans[i].plan), n \in 1..Len(plans[j].plan) :
                   /\ i # j \/ m # n
                   /\ plans[i].plan[m].OutputPath = plans[j].plan[n].OutputPath

\* C20: an each-file or each-directory command two of whose planned outputs,
\* of different items or of one, have the same output path ends with the
\* exit code of a runtime error, and writes no file at any point, not for
\* the items before the colliding ones either.
InternalCollisionWritesNothing ==
    (pc \notin {"idle"} /\ PlannedTwice) =>
        /\ fs = fs0
        /\ writes = 0
        /\ pc = "done" => exit = ExitRuntimeError

\* C20 witness: the second and third item of an each-file command rendered
\* the same path; the command ended after planning two items, the first
\* item's file was not written
CollisionAfterFirstItemRejected ==
    /\ pc = "done"
    /\ mode = modeEachFile
    /\ PlannedTwice
    /\ args.data = List(<<ItemB, ItemA, ItemA>>)
    /\ Len(planned) = 2
    /\ report.Msg = cliMsg.internalCollision
    /\ Stat(fs, ItemPath(1)) = Stat(fs0, ItemPath(1))
    /\ fs = fs0


\* the control file has a top-level key other than paths, a mapping object
\* without a path, a source key that is absolute, has a null byte, has a
\* ".." segment or names nothing in the template directory, or an output
\* path that is not a template
Malformed(content, tmplDir) ==
    \/ content.keys \ {"paths"} # {}
    \/ \E src \in DOMAIN content.paths :
          \/ content.paths[src].object /\ content.paths[src].path = <<>>
          \/ src # <<>> /\ src[1] = "/"
          \/ \E i \in 1..Len(src) : src[i] = Nul
          \/ HasDotDotSegment(src)
          \/ (tmplDir \o <<"/">> \o src) \notin DOMAIN fs0
          \/ \E d \in {DataA} : RenderString(content.paths[src].path, d).err

\* C21: Parse returns an error and no ParsedConfig for a malformed control
\* file, a ParsedConfig only when every mapping passes, and a directory-mode
\* command with a malformed control file plans nothing, writes nothing and
\* fails.
ParseFailsFast ==
    (args.cfg.control /\ Malformed(args.cfg, args.template)) =>
        /\ \A ld \in Parse(fs0, args.cfg, args.template) :
              ld.err # ErrNil /\ ld.cfg = NilConfig
        /\ pc \notin {"idle"} =>
              /\ planned = <<>>
              /\ parsedCfg = NilConfig
              /\ fs = fs0
              /\ writes = 0
              /\ pc = "done" => exit # ExitSuccess

\* C21 witness: one mapping of the control file passes, the other names a
\* source the tree does not have; the command ended on Parse's error
OneMissingSourceRejected ==
    /\ pc = "done"
    /\ mode \in DirModes
    /\ args.cfg = CfgMissingSource
    /\ exit = ExitInputValidation
    /\ report.Msg = configErr.missing
    /\ parsedCfg = NilConfig
    /\ fs = fs0


\* the output directory and the data of the n-th plan of a directory mode
PlanOutDir(n) == IF mode = modeDirectory THEN args.output ELSE ItemPath(n)

PlanData(n) == IF mode = modeDirectory THEN args.data ELSE Items[n]

\* the path of a file of the template tree relative to the template directory
RelOf(p) == SubSeq(p, Len(Abs(args.template)) + 2, Len(p))

\* the regular files of the template tree, but for control files at the top
SourceFiles ==
    {p \in DOMAIN fs0 :
        /\ HasPrefix(p, Abs(args.template) \o <<"/">>)
        /\ fs0[p].kind = "file"
        /\ \A i \in 1..Len(configFileNames) : RelOf(p) # configFileNames[i]}

\* what Collect is to plan for the file p of the tree
PlannedFor(p, n) ==
    IF HasSuffix(p, TmplSuffix)
    THEN Output(RelOf(p),
                Abs(PlanOutDir(n)) \o <<"/">> \o SubSeq(RelOf(p), 1, Len(RelOf(p)) - Len(TmplSuffix)),
                RenderString(fs0[p].data, PlanData(n)).out, <<>>, TRUE)
    ELSE Output(RelOf(p), Abs(PlanOutDir(n)) \o <<"/">> \o RelOf(p), <<>>, p, TRUE)

\* C22: with no rules in a control file, a plan Collect returns has one entry
\* for each regular file of the tree that is not a control file at the top
\* level and none for a directory: a rendered entry without the suffix for a
\* template, a copy entry for any other file, never both content and a copy
\* source.
CollectPlansEveryFileOnce ==
    (mode \in DirModes /\ IsEmpty(parsedCfg)) =>
        \A n \in 1..Len(planned) :
            /\ Len(planned[n]) = Cardinality(SourceFiles)
            /\ \A p \in SourceFiles : \E i \in 1..Len(planned[n]) : planned[n][i] = PlannedFor(p, n)
            /\ \A i \in 1..Len(planned[n]) :
                  (planned[n][i].CopyFrom = <<>>) # (planned[n][i].Content = <<>>)
                     \/ (planned[n][i].CopyFrom = <<>> /\ HasSuffix(planned[n][i].SourcePath, TmplSuffix))

\* C22 witness: the tree has a control file at the top, one in a directory,
\* a template and an empty directory; the plan has the template rendered
\* and the control file of the directory copied
NestedControlFileCopied ==
    /\ mode = modeDirectory
    /\ pc = "done"
    /\ exit = ExitSuccess
    /\ Src(configFileNames[1]) \in DOMAIN fs0
    /\ Len(planned) = 1
    /\ Len(planned[1]) = 2
    /\ \E i \in 1..2 : planned[1][i].CopyFrom = Src(RelD \o <<"/">> \o configFileNames[1])
    /\ \E i \in 1..2 : planned[1][i].OutputPath = OutA /\ planned[1][i].Content = <<"a">>


\* C23: the output path of every entry of a plan Collect returns lies inside
\* the output directory of the plan, whatever the control file and the data.
PlannedInsideOutputDir ==
    mode \in DirModes =>
        \A n \in 1..Len(planned) : \A i \in 1..Len(planned[n]) :
            HasPrefix(planned[n][i].OutputPath, Abs(PlanOutDir(n)) \o <<"/">>)

\* C23 witness: the output directory is /o.tmpl, the rule of a.tmpl renders
\* the empty path, and the command wrote the file /o beside the directory
WroteBesideOutputDir ==
    /\ pc = "done"
    /\ mode = modeDirectory
    /\ exit = ExitSuccess
    /\ args.output = OutputTmplDir
    /\ args.cfg = CfgEmptyPath
    /\ \E i \in 1..Len(planned[1]) : planned[1][i].OutputPath = OutputDir
    /\ Stat(fs0, OutputDir) = "ENOENT"
    /\ Stat(fs, OutputDir) = "file"
    /\ ReadFile(fs, OutputDir).data = <<"a">>


\* C24: Execute takes the entries in plan order, one at a time; when an
\* entry fails it returns an error and no result, the entries before it stay
\* as they were applied and the entries after it are not touched.
ExecuteStopsAtFirstFailure ==
    mode \in DirModes =>
        /\ Len(log) <= Len(AllOutputs(planned))
        /\ \A j \in 1..Len(log) :
              /\ log[j].out = AllOutputs(planned)[j]
              /\ j < Len(log) => log[j].err = ErrNil
              /\ j < Len(log) => NodeAt(fs, log[j].out.OutputPath) = log[j].after
        /\ (log # <<>> /\ log[Len(log)].err # ErrNil) =>
              /\ pc = "done"
              /\ exit # ExitSuccess
              /\ skipped = {}
              /\ report.Status = "error"
              /\ \A j \in (Len(log) + 1)..Len(AllOutputs(planned)) :
                    NodeAt(fs, AllOutputs(planned)[j].OutputPath)
                        = NodeAt(fs0, AllOutputs(planned)[j].OutputPath)

\* C24 witness: the second entry failed after the first was written; the
\* first entry's file is still there
SecondEntryFailedFirstStayed ==
    /\ pc = "done"
    /\ mode = modeDirectory
    /\ Len(log) >= 2
    /\ log[1].wrote
    /\ log[1].after # log[1].before
    /\ log[Len(log)].err # ErrNil
    /\ NodeAt(fs, log[1].out.OutputPath) = log[1].after

\* the directories of the template tree
SourceDirs ==
    {p \in DOMAIN fs0 : HasPrefix(p, Abs(args.template) \o <<"/">>) /\ fs0[p].kind = "dir"}

\* the directory of the output that stands for the directory p of the tree
MappedDir(p) ==
    With(TransformPath(parsedCfg, RelOf(p), args.data), LAMBDA r :
        IF r.err THEN Abs(args.output) ELSE Join(Abs(args.output), r.path))

\* C25: after a successful run in directory mode every directory of the
\* template tree, mapped through the rules, exists in the output, the
\* directories with no file in them included.
TemplateDirsExistInOutput ==
    (pc = "done" /\ exit = ExitSuccess /\ mode = modeDirectory /\ ~flags.dryRun) =>
        \A p \in SourceDirs : Stat(fs, MappedDir(p)) = "dir"

\* C25 witness: the run succeeded and wrote the template's output, the tree
\* has the empty directory e, and the output has no e
EmptyDirNotCreated ==
    /\ pc = "done" /\ exit = ExitSuccess /\ mode = modeDirectory /\ ~flags.dryRun
    /\ IsEmpty(parsedCfg)
    /\ Src(<<"e">>) \in SourceDirs
    /\ Stat(fs, Join(Abs(args.output), RelATmpl)) = "ENOENT"
    /\ Stat(fs, Join(Abs(args.output), <<"a">>)) = "file"
    /\ Stat(fs, Join(Abs(args.output), RelD)) = "dir"
    /\ Stat(fs, Join(Abs(args.output), <<"e">>)) = "ENOENT"


\* the entries of the template tree
SourceEntries == {p \in DOMAIN fs0 : HasPrefix(p, Abs(args.template) \o <<"/">>)}

\* C26: Collect rejects a walked entry for traversal only when one of the
\* segments of its relative path is ".."; a name that merely has two dots in
\* a row is collected.
WalkedEntryRejectedOnlyForDotDotSegment ==
    (mode \in DirModes /\ report.Msg = collectErr.walked) =>
        \E p \in SourceEntries : HasDotDotSegment(RelOf(p))

\* C26 witness: the tree holds the one file a..b, and the run ended with the
\* traversal error of Collect and nothing written
DotDotNameRejected ==
    /\ pc = "done" /\ mode = modeDirectory
    /\ SourceEntries = {Src(<<"a", ".", ".", "b">>)}
    /\ fs0[Src(<<"a", ".", ".", "b">>)].kind = "file"
    /\ exit = ExitRuntimeError
    /\ report.Msg = collectErr.walked
    /\ planned = <<>>
    /\ fs = fs0


\* the keys of the control file that have overwrite: false
ProtectedKeys ==
    IF args.cfg.control
    THEN {q \in DOMAIN args.cfg.paths : ~args.cfg.paths[q].overwrite}
    ELSE {}

\* C27: an entry of a plan has Overwrite false exactly when its own source
\* path is a key of the control file with overwrite: false; the key of a
\* directory is recorded and leaves the files beneath the directory alone.
OverwriteFalseOnlyForOwnKey ==
    mode \in DirModes =>
        /\ ~MapperIsNil(parsedCfg) => parsedCfg.noOverwrite = ProtectedKeys
        /\ \A n \in 1..Len(planned) : \A i \in 1..Len(planned[n]) :
              planned[n][i].Overwrite = (planned[n][i].SourcePath \notin ProtectedKeys)

\* C27 witness: the directory d has overwrite: false, which is recorded, and
\* the file d/b beneath it was planned with Overwrite true and written
ProtectedDirFileOverwritable ==
    /\ pc = "done" /\ mode = modeDirectory /\ exit = ExitSuccess
    /\ ~MapperIsNil(parsedCfg)
    /\ parsedCfg.noOverwrite = {RelD}
    /\ \E i \in 1..Len(planned[1]) :
          /\ planned[1][i].SourcePath = RelDB
          /\ planned[1][i].Overwrite
    /\ \E j \in 1..Len(log) : log[j].out.SourcePath = RelDB /\ log[j].wrote


\* C28: TransformPath gives one result for a path whatever the order in
\* which the mappings were declared or ranged over: every way Parse can leave
\* the directory mappings gives the result of the call.
TransformPathIgnoresMappingOrder ==
    call.op = "TransformPath" =>
        \A ld \in LoadFile(fs, args.cfg, args.template) :
            ld.err = ErrNil => TransformPath(ld.cfg, call.relPath, args.data) = call.res

\* C28 witness: src and srd have rules, Parse can leave them in either order,
\* and srd/x was mapped by the rule of srd although src came first
SecondOfEqualLengthPrefixesMatched ==
    /\ call.op = "TransformPath"
    /\ \E ld \in LoadFile(fs, args.cfg, args.template) :
          ld.err = ErrNil /\ ld.cfg.dirMappings # call.cfg.dirMappings
    /\ \E i \in 1..Len(call.cfg.dirMappings) - 1 :
          /\ call.cfg.dirMappings[i].prefix = RelSrc
          /\ call.cfg.dirMappings[i + 1].prefix = RelSrd
    /\ call.relPath = Under(RelSrd, RelX)
    /\ call.res = Mapped(Under(<<"e">>, RelX))


\* two items of an each-file command render different strings that name one
\* file
AliasedItems ==
    /\ mode = modeEachFile
    /\ EachFileItemsRender
    /\ \E i, j \in 1..Len(Items) :
          /\ ItemPath(i) # ItemPath(j)
          /\ Abs(ItemPath(i)) = Abs(ItemPath(j))

\* C29: an each-file command two of whose items render paths that are
\* different strings and name the same file is rejected as an internal
\* collision before any write.
AliasedItemsRejectedBeforeWrite ==
    (pc \notin {"idle"} /\ AliasedItems) =>
        /\ fs = fs0
        /\ writes = 0
        /\ pc = "done" => report.Msg = cliMsg.internalCollision

\* C29 witness: the items a and ./a, nothing in the way and no --force; both
\* items were planned, and the file was written for the first
AliasedItemsBothPlanned ==
    /\ pc = "done"
    /\ AliasedItems
    /\ ~flags.force /\ ~flags.dryRun
    /\ args.data = List(<<ItemA, ItemAliasA>>)
    /\ Len(planned) = 2
    /\ report.Msg # cliMsg.internalCollision
    /\ Stat(fs0, OutA) = "ENOENT"
    /\ ReadFile(fs, OutA).data = <<"a">>


\* the bytes Execute writes for an entry: its content, or the bytes of the
\* source file of a copy entry
WouldWrite(out) ==
    IF out.CopyFrom # <<>> THEN ReadFile(fs0, out.CopyFrom).data ELSE out.Content

\* an entry the pre-execute check looks at whose destination is a regular
\* file with other bytes than the entry would write
DiffersFromDestination(out) ==
    /\ out.Overwrite
    /\ Stat(fs0, out.OutputPath) = "file"
    /\ ReadFile(fs0, out.OutputPath).data # WouldWrite(out)

\* C30: in the directory modes without --force the pre-execute check lets
\* the plans pass exactly when no existing destination differs from the
\* bytes its entry would write, the bytes of the source file for a copy
\* entry, and reports a conflict exactly when one differs.
PreCheckComparesBytesToWrite ==
    (mode \in DirModes /\ ~flags.force) =>
        \A outs \in {AllOutputs(planned)} :
            /\ pc = "checked" => \A i \in 1..Len(outs) : ~DiffersFromDestination(outs[i])
            /\ (pc = "done" /\ exit = ExitOutputConflict /\ log = <<>>) =>
                  \E i \in 1..Len(outs) : DiffersFromDestination(outs[i])

\* C30 witness: /o/b holds the bytes of the source file b and nothing else
\* is in the way; the check reported a conflict and nothing was written
IdenticalCopyReportedAsConflict ==
    /\ pc = "done" /\ mode = modeDirectory /\ ~flags.force
    /\ exit = ExitOutputConflict /\ report.Msg = ErrAlreadyExists
    /\ log = <<>> /\ fs = fs0
    /\ planned # <<>>
    /\ \E i \in 1..Len(planned[1]) :
          /\ planned[1][i].OutputPath = OutB
          /\ planned[1][i].CopyFrom = Src(RelB)
          /\ planned[1][i].Overwrite
    /\ ReadFile(fs0, OutB).data = ReadFile(fs0, Src(RelB)).data
    /\ \A i \in 1..Len(planned[1]) : ~DiffersFromDestination(planned[1][i])

====
